---- MODULE Spec2Model ----
(***************************************************************************)
(* Verification model of the rjscompiler minifier pipeline.                *)
(*                                                                         *)
(*   Part I    transformer pass manager and rollback manager               *)
(*             (src/src/transformer/mod.rs, src/src/transformer/rollback.rs)*)
(*   Part II   analyzer: scope construction and safety classification      *)
(*             (src/src/analyzer/scope_builder.rs, semantic_analysis.rs)   *)
(*   Part III  printer: precedence and statement termination               *)
(*             (src/src/generator/printer.rs)                              *)
(***************************************************************************)
EXTENDS Integers, Sequences, FiniteSets, TLC

(***************************************************************************)
(* Bounds of the exploration.                                              *)
(***************************************************************************)
\* number of distinct Program values (a Program is compared by value only)
MaxTree == 2
\* largest RollbackConfig.max_checkpoints given to a stand-alone manager
MaxCheckpointLimit == 2
\* calls of Transformer::transform / safe_transform on one object
MaxCalls == 1

(***************************************************************************)
(* Part I.  Transformer and rollback manager                               *)
(***************************************************************************)
VARIABLES
    obj,              \* which object has been constructed: "none", "Transformer", "RollbackManager"
    config,           \* TransformerConfig of the constructed Transformer
    max_checkpoints,  \* RollbackConfig.max_checkpoints of the manager
    checkpoints,      \* RollbackManager.checkpoints
    ast,              \* the Program being transformed (local `ast`)
    pc,               \* position inside Transformer::transform: 0 = not running, p = about to do pass p, 6 = about to return
    pass_result,      \* what the most recent pass / transform_fn of the current call returned
    result,           \* what the most recent call returned to its caller
    call,             \* the most recent call on a stand-alone manager: its name, its arguments,
                      \* the checkpoint stack it found and its result
    calls             \* number of transform / safe_transform calls made

tvars == <<obj, config, max_checkpoints, checkpoints, ast, pc, pass_result, result, call, calls>>

Trees == 0 .. (MaxTree - 1)
NoTree == -1

\* the five passes in pipeline order, with the names given to create_checkpoint
Passes == 1 .. 5
PassName ==
    <<"identifier_renaming", "dead_code_elimination", "expression_simplification",
      "property_minification", "function_minification">>
\* the pass names a caller of a stand-alone manager uses
ManagerPassNames == {PassName[1], PassName[2]}

\* enum TransformError: one variant per pass, RollbackRequired, InvalidState
PassError ==
    <<"IdentifierRenamingError", "DeadCodeEliminationError", "ExpressionSimplificationError",
      "PropertyMinificationError", "FunctionMinificationError">>
TransformError == {PassError[p] : p \in Passes} \cup {"RollbackRequired", "InvalidState"}
HardErrors == TransformError \ {"RollbackRequired"}

\* TransformResult<T> as seen by the caller
Ok(t) == [kind |-> "Ok", ast |-> t, err |-> "none"]
Err(e) == [kind |-> "Err", ast |-> NoTree, err |-> e]
NoResult == [kind |-> "None", ast |-> NoTree, err |-> "none"]

\* what a pass with signature fn(&mut Program, ..) -> TransformResult<..> can hand back
PassOutcomes(p) == {"Ok", "RollbackRequired", "InvalidState", PassError[p]}
\* what a transform_fn: FnOnce(&mut Program) -> TransformResult<()> can hand back
FnOutcomes == {"Ok", "RollbackRequired", "InvalidState"}

\* TransformerConfig: the five enable flags and enable_rollback
TransformerConfigs == [enabled : [Passes -> BOOLEAN], enable_rollback : BOOLEAN]
DefaultConfig == [enabled |-> [p \in Passes |-> TRUE], enable_rollback |-> TRUE]

\* max_checkpoints set by Transformer::new
TransformerMaxCheckpoints == 10

NoCall ==
    [name |-> "none", before |-> <<>>, ast |-> NoTree, pass_name |-> "none",
     fn_result |-> "none", fn_ast |-> NoTree, returned |-> NoResult]

Checkpoint(t, name) == [original_ast |-> t, pass_name |-> name]

\* RollbackManager::create_checkpoint: push, then drop the oldest when over the limit
CreateCheckpoint(cps, t, name, max) ==
    LET pushed == Append(cps, Checkpoint(t, name))
    IN  IF Len(pushed) > max THEN Tail(pushed) ELSE pushed

\* a rollback that reads the top checkpoint and leaves it on the stack
RollbackToLastKeep(cps) ==
    IF Len(cps) > 0
        THEN [cps |-> cps, res |-> Ok(cps[Len(cps)].original_ast)]
        ELSE [cps |-> cps, res |-> Err("RollbackRequired")]

\* RollbackManager::rollback_to_last_checkpoint: [stack after, result]
RollbackToLast(cps) ==
    IF Len(cps) > 0
        THEN [cps |-> SubSeq(cps, 1, Len(cps) - 1), res |-> Ok(cps[Len(cps)].original_ast)]
        ELSE [cps |-> cps, res |-> Err("RollbackRequired")]

\* rposition(|cp| cp.pass_name == name): 0 when there is none
RPosition(cps, name) ==
    LET hits == {i \in 1 .. Len(cps) : cps[i].pass_name = name}
    IN  IF hits = {} THEN 0 ELSE CHOOSE i \in hits : \A j \in hits : j <= i

\* a rollback to a pass that removes the found checkpoint and keeps the later ones
RollbackToPassRemoveOnly(cps, name) ==
    LET pos == RPosition(cps, name)
    IN  IF pos > 0
            THEN [cps |-> SubSeq(cps, 1, pos - 1) \o SubSeq(cps, pos + 1, Len(cps)),
                  res |-> Ok(cps[pos].original_ast)]
            ELSE [cps |-> cps, res |-> Err("RollbackRequired")]

\* RollbackManager::rollback_to_pass: remove(pos) then truncate(pos)
RollbackToPass(cps, name) ==
    LET pos == RPosition(cps, name)
    IN  IF pos > 0
            THEN [cps |-> SubSeq(cps, 1, pos - 1), res |-> Ok(cps[pos].original_ast)]
            ELSE [cps |-> cps, res |-> Err("RollbackRequired")]

has_unsafe_constant_folding(original, transformed) == FALSE
has_unsafe_function_inlining(original, transformed) == FALSE
has_unsafe_variable_elimination(original, transformed) == FALSE

\* RollbackManager::validate_transformation
ValidateTransformation(original, transformed) ==
    IF has_unsafe_constant_folding(original, transformed) THEN FALSE
    ELSE IF has_unsafe_function_inlining(original, transformed) THEN FALSE
    ELSE IF has_unsafe_variable_elimination(original, transformed) THEN FALSE
    ELSE TRUE

\* safe_transform: [stack after, result]; fn_result / fn_ast are what transform_fn
\* returned and the tree it left behind
SafeTransformOutcome(cps, max, t, name, fn_result, fn_ast) ==
    LET cps1 == CreateCheckpoint(cps, t, name, max)
    IN  IF fn_result = "Ok" /\ ValidateTransformation(t, fn_ast)
            THEN [cps |-> cps1, res |-> Ok(fn_ast)]
            ELSE RollbackToLast(cps1)

\* passes for which Transformer::transform calls create_checkpoint
CheckpointedPasses == {1, 2, 3}

\* the `?` after a pass call: continue with the next pass on Ok, return the error otherwise
TryPassSwallow(p, r) == [pc |-> p + 1, result |-> NoResult]
TryPass(p, r) ==
    IF r = "Ok" THEN [pc |-> p + 1, result |-> NoResult]
                ELSE [pc |-> 0, result |-> Err(r)]

InitT ==
    /\ obj = "none"
    /\ config = DefaultConfig
    /\ max_checkpoints = 0
    /\ checkpoints = <<>>
    /\ ast = NoTree
    /\ pc = 0
    /\ pass_result = "none"
    /\ result = NoResult
    /\ call = NoCall
    /\ calls = 0

\* Transformer::new(config, analysis_result)
TransformerNew ==
    /\ obj = "none"
    /\ \E c \in TransformerConfigs : config' = c
    /\ obj' = "Transformer"
    /\ max_checkpoints' = TransformerMaxCheckpoints
    /\ checkpoints' = <<>>
    /\ UNCHANGED <<ast, pc, pass_result, result, call, calls>>

\* RollbackManager::new(config)
RollbackManagerNew ==
    /\ obj = "none"
    /\ \E m \in 0 .. MaxCheckpointLimit : max_checkpoints' = m
    /\ obj' = "RollbackManager"
    /\ checkpoints' = <<>>
    /\ UNCHANGED <<config, ast, pc, pass_result, result, call, calls>>

\* entry of Transformer::transform(ast)
TransformStart ==
    /\ obj = "Transformer"
    /\ pc = 0
    /\ calls < MaxCalls
    /\ \E t \in Trees : ast' = t
    /\ pc' = 1
    /\ pass_result' = "none"
    /\ result' = NoResult
    /\ calls' = calls + 1
    /\ UNCHANGED <<obj, config, max_checkpoints, checkpoints, call>>

\* one `if self.config.enable_<pass> { .. }` block of Transformer::transform
TransformPass(p) ==
    /\ obj = "Transformer"
    /\ pc = p
    /\ IF config.enabled[p]
          THEN /\ checkpoints' =
                      IF config.enable_rollback /\ p \in CheckpointedPasses
                          THEN CreateCheckpoint(checkpoints, ast, PassName[p], max_checkpoints)
                          ELSE checkpoints
               /\ \E r \in PassOutcomes(p), t \in Trees :
                      /\ ast' = t
                      /\ pass_result' = r
                      /\ pc' = TryPass(p, r).pc
                      /\ result' = TryPass(p, r).result
          ELSE /\ pc' = p + 1
               /\ UNCHANGED <<checkpoints, ast, pass_result, result>>
    /\ UNCHANGED <<obj, config, max_checkpoints, call, calls>>

\* Ok(TransformationResult { transformed_ast: ast, .. })
TransformReturn ==
    /\ obj = "Transformer"
    /\ pc = 6
    /\ pc' = 0
    /\ result' = Ok(ast)
    /\ UNCHANGED <<obj, config, max_checkpoints, checkpoints, ast, pass_result, call, calls>>

\* manager.create_checkpoint(&ast, pass_name, reason)
CreateCheckpointCall ==
    /\ obj = "RollbackManager"
    /\ \E t \in Trees, n \in ManagerPassNames :
           /\ checkpoints' = CreateCheckpoint(checkpoints, t, n, max_checkpoints)
           /\ call' = [NoCall EXCEPT !.name = "create_checkpoint", !.before = checkpoints,
                                     !.ast = t, !.pass_name = n]
    /\ UNCHANGED <<obj, config, max_checkpoints, ast, pc, pass_result, result, calls>>

\* manager.rollback_to_last_checkpoint()
RollbackToLastCall ==
    /\ obj = "RollbackManager"
    /\ checkpoints' = RollbackToLast(checkpoints).cps
    /\ result' = RollbackToLast(checkpoints).res
    /\ call' = [NoCall EXCEPT !.name = "rollback_to_last_checkpoint",
                              !.before = checkpoints,
                              !.returned = RollbackToLast(checkpoints).res]
    /\ UNCHANGED <<obj, config, max_checkpoints, ast, pc, pass_result, calls>>

\* manager.rollback_to_pass(pass_name)
RollbackToPassCall ==
    /\ obj = "RollbackManager"
    /\ \E n \in ManagerPassNames :
           /\ checkpoints' = RollbackToPass(checkpoints, n).cps
           /\ result' = RollbackToPass(checkpoints, n).res
           /\ call' = [NoCall EXCEPT !.name = "rollback_to_pass", !.before = checkpoints,
                                     !.pass_name = n,
                                     !.returned = RollbackToPass(checkpoints, n).res]
    /\ UNCHANGED <<obj, config, max_checkpoints, ast, pc, pass_result, calls>>

\* manager.clear_checkpoints()
ClearCheckpointsCall ==
    /\ obj = "RollbackManager"
    /\ checkpoints' = <<>>
    /\ call' = [NoCall EXCEPT !.name = "clear_checkpoints", !.before = checkpoints]
    /\ UNCHANGED <<obj, config, max_checkpoints, ast, pc, pass_result, result, calls>>

\* safe_transform(ast, pass_name, transform_fn, analysis, &mut manager)
SafeTransformCall ==
    /\ obj = "RollbackManager"
    /\ calls < MaxCalls
    /\ \E t \in Trees, n \in ManagerPassNames, r \in FnOutcomes, t2 \in Trees :
           LET out == SafeTransformOutcome(checkpoints, max_checkpoints, t, n, r, t2)
           IN  /\ checkpoints' = out.cps
               /\ result' = out.res
               /\ call' = [name |-> "safe_transform", before |-> checkpoints, ast |-> t,
                           pass_name |-> n, fn_result |-> r, fn_ast |-> t2,
                           returned |-> out.res]
    /\ calls' = calls + 1
    /\ UNCHANGED <<obj, config, max_checkpoints, ast, pc, pass_result>>



(***************************************************************************)
(* Part II.  Analyzer                                                      *)
(***************************************************************************)
\* number of AST nodes (statements and function expressions) in an analysed program
MaxNodes == 4

VARIABLES
    program,         \* the Program handed to analyze_ast (its body)
    apc,             \* position inside analyze_ast: "parsed", "scoped", "propagating", "done", or "idle"
    scope_tree,      \* ScopeTree.scopes, scope id i at index i + 1
    symbol_table,    \* SymbolTable.symbols, symbol id i at index i + 1
    semantic_flags,  \* SemanticFlags
    reference_log,   \* one entry per reference_symbol call: the name and the scope it was made from
    pending          \* propagate_unsafe_flags: the collected keys of unsafe_scopes not yet visited

avars == <<program, apc, scope_tree, symbol_table, semantic_flags, reference_log, pending>>

NoScope == -1
NoSymbol == -1

\* ---- AST (src/src/parser/ast_types.rs) ----
Identifier(n) == [type |-> "Identifier", name |-> n]
ThisExpression == [type |-> "ThisExpression"]
CallExpression(c, args) == [type |-> "CallExpression", callee |-> c, arguments |-> args]
ArrowFunctionExpression(b) == [type |-> "ArrowFunctionExpression", params |-> <<>>, body |-> b]
ExpressionStatement(e) == [type |-> "ExpressionStatement", expression |-> e]
VariableDeclaration(k, n) == [type |-> "VariableDeclaration", kind |-> k, id |-> n]
FunctionDeclaration(n, b) == [type |-> "FunctionDeclaration", id |-> n, params |-> <<>>, body |-> b]
BlockStatement(b) == [type |-> "BlockStatement", body |-> b]
ExportNamedDeclaration(d) == [type |-> "ExportNamedDeclaration", declaration |-> d]

\* statements without a body that may stand anywhere
LeafStatements ==
    { ExpressionStatement(Identifier("x")),
      ExpressionStatement(CallExpression(Identifier("eval"), <<>>)),
      ExpressionStatement(ThisExpression),
      VariableDeclaration("let", "x"),
      VariableDeclaration("var", "x") }

\* export declarations: statements of the program body only
ExportStatements ==
    { ExportNamedDeclaration(VariableDeclaration("let", "x")),
      ExportNamedDeclaration(VariableDeclaration("var", "x")) }

\* statements of n nodes, given bodies[m + 1] = the statement lists of m nodes for m < n
StatementsOfSize(n, bodies) ==
    (IF n = 1 THEN LeafStatements ELSE {})
        \cup {FunctionDeclaration("f", b) : b \in bodies[n]}
        \cup {BlockStatement(b) : b \in bodies[n]}
        \cup {ExpressionStatement(ArrowFunctionExpression(b)) : b \in bodies[n]}

\* bodies[m + 1] for m = 0 .. MaxNodes - 1, built from the smaller sizes upward
RECURSIVE BodiesUpTo(_, _)
BodiesUpTo(bodies, m) ==
    IF m > MaxNodes - 1 THEN bodies
    ELSE LET next == UNION {{<<s>> \o r : s \in StatementsOfSize(k, bodies),
                                          r \in bodies[m - k + 1]} : k \in 1 .. m}
         IN  BodiesUpTo(Append(bodies, next), m + 1)

BodiesOfSize == BodiesUpTo(<<{<<>>}>>, 1)

\* statements of n nodes of the program body
TopStatementsOfSize(n) ==
    StatementsOfSize(n, BodiesOfSize) \cup (IF n = 1 THEN ExportStatements ELSE {})

\* programs[m + 1] = the program bodies of m nodes, for m = 0 .. MaxNodes - 1
RECURSIVE ProgramsUpTo(_, _)
ProgramsUpTo(programs, m) ==
    IF m > MaxNodes - 1 THEN programs
    ELSE LET next == UNION {{<<s>> \o r : s \in TopStatementsOfSize(k),
                                          r \in programs[m - k + 1]} : k \in 1 .. m}
         IN  ProgramsUpTo(Append(programs, next), m + 1)

ProgramsOfSize == ProgramsUpTo(<<{<<>>}>>, 1)

\* body is a program body of at most MaxNodes nodes: empty, or a first statement
\* of k nodes followed by a program body of the remaining nodes
IsProgram(body) ==
    \/ body = <<>>
    \/ \E m \in 1 .. MaxNodes, k \in 1 .. MaxNodes :
           /\ k <= m
           /\ \E s \in TopStatementsOfSize(k), r \in ProgramsOfSize[m - k + 1] :
                  body = <<s>> \o r

\* ---- scope tree and symbol table (src/src/analyzer/mod.rs) ----
Scope(ty, parent) ==
    [scope_type |-> ty, parent_id |-> parent, children |-> <<>>, bindings |-> <<>>, is_safe |-> TRUE]

\* ScopeTree::new(ScopeType::Global)
ScopeTreeNew == <<Scope("Global", NoScope)>>

\* SymbolType::Variable { kind } and SymbolType::Function
SymbolTypeVariable(kind) == [variant |-> "Variable", kind |-> kind]
SymbolTypeFunction == [variant |-> "Function", kind |-> "none"]

Symbol(n, ty, scope) ==
    [name |-> n, symbol_type |-> ty, scope_id |-> scope, references |-> <<>>,
     is_captured |-> FALSE, is_exported |-> FALSE, is_renamable |-> TRUE]

SemanticFlagsNew == [unsafe_scopes |-> <<>>, unsafe_symbols |-> <<>>, global_references |-> <<>>]

\* ScopeAnalysisContext
ScopeContext(scopes, symbols, cur, log) ==
    [scopes |-> scopes, symbols |-> symbols, current_scope |-> cur, log |-> log]

\* a create_scope that stores the new scope and does not enter it in its parent's children
CreateScopeUnlisted(c, ty, parent) ==
    [c EXCEPT !.scopes = Append(c.scopes, Scope(ty, parent))]

\* create_scope: returns the context with the new scope; its id is Len(c.scopes)
CreateScope(c, ty, parent) ==
    LET id == Len(c.scopes)
        linked == [c.scopes EXCEPT ![parent + 1].children = Append(@, id)]
    IN  [c EXCEPT !.scopes = Append(linked, Scope(ty, parent))]

\* scope_bindings[scope].get(name)
Binding(symbols, scope, n) ==
    LET hits == {i \in 1 .. Len(symbols) : symbols[i].scope_id = scope /\ symbols[i].name = n}
    IN  IF hits = {} THEN NoSymbol ELSE (CHOOSE i \in hits : TRUE) - 1

\* declare_symbol
DeclareSymbol(c, n, ty, scope) ==
    IF Binding(c.symbols, scope, n) # NoSymbol THEN c
    ELSE LET id == Len(c.symbols)
         IN  [c EXCEPT !.symbols = Append(@, Symbol(n, ty, scope)),
                       !.scopes[scope + 1].bindings = Append(@, id)]

\* resolve_symbol
RECURSIVE ResolveSymbol(_, _, _)
ResolveSymbol(c, n, scope) ==
    IF Binding(c.symbols, scope, n) # NoSymbol THEN Binding(c.symbols, scope, n)
    ELSE IF c.scopes[scope + 1].parent_id # NoScope
        THEN ResolveSymbol(c, n, c.scopes[scope + 1].parent_id)
        ELSE NoSymbol

\* the capture test of reference_symbol
IsCapture(symbol_scope, reference_scope) == symbol_scope # reference_scope

\* reference_symbol
ReferenceSymbol(c, n, rty) ==
    LET id == ResolveSymbol(c, n, c.current_scope)
        logged == [c EXCEPT !.log = Append(@, [name |-> n, scope_id |-> c.current_scope])]
    IN  IF id = NoSymbol THEN logged
        ELSE [logged EXCEPT
                 !.symbols[id + 1].references =
                     Append(@, [reference_type |-> rty, scope_id |-> c.current_scope]),
                 !.symbols[id + 1].is_captured =
                     IF IsCapture(c.symbols[id + 1].scope_id, c.current_scope) THEN TRUE ELSE @]

\* mark_last_declaration_as_exported
MarkLastDeclarationAsExported(c) ==
    LET b == c.scopes[c.current_scope + 1].bindings
    IN  IF Len(b) = 0 THEN c
        ELSE [c EXCEPT !.symbols[b[Len(b)] + 1].is_exported = TRUE,
                       !.symbols[b[Len(b)] + 1].is_renamable = FALSE]

\* hoist_statement_declarations, folded over a body
RECURSIVE HoistStatement(_, _), HoistStatements(_, _)
HoistStatement(c, stmt) ==
    CASE stmt.type = "VariableDeclaration" ->
            IF stmt.kind = "var"
                THEN DeclareSymbol(c, stmt.id, SymbolTypeVariable("var"), c.current_scope)
                ELSE c
      [] stmt.type = "FunctionDeclaration" ->
            DeclareSymbol(c, stmt.id, SymbolTypeFunction, c.current_scope)
      [] stmt.type = "BlockStatement" -> HoistStatements(c, stmt.body)
      [] OTHER -> c
HoistStatements(c, body) ==
    IF body = <<>> THEN c ELSE HoistStatements(HoistStatement(c, Head(body)), Tail(body))

\* needs_block_scope of analyze_block_statement
NeedsBlockScope(body) ==
    \E i \in 1 .. Len(body) :
        body[i].type = "VariableDeclaration" /\ body[i].kind \in {"let", "const"}

\* analyze_statement / analyze_expression and the functions they dispatch to
RECURSIVE AnalyzeStatement(_, _), AnalyzeStatements(_, _), AnalyzeExpression(_, _),
          AnalyzeExpressions(_, _)
\* body of a function-like scope: create the scope, hoist, walk, restore
AnalyzeFunctionBody(c, body) ==
    LET entered == [CreateScope(c, "Function", c.current_scope)
                        EXCEPT !.current_scope = Len(c.scopes)]
        walked == AnalyzeStatements(HoistStatements(entered, body), body)
    IN  [walked EXCEPT !.current_scope = c.current_scope]
AnalyzeStatement(c, stmt) ==
    CASE stmt.type = "VariableDeclaration" ->
            IF stmt.kind # "var"
                THEN DeclareSymbol(c, stmt.id, SymbolTypeVariable(stmt.kind), c.current_scope)
                ELSE c
      [] stmt.type = "FunctionDeclaration" -> AnalyzeFunctionBody(c, stmt.body)
      [] stmt.type = "ExpressionStatement" -> AnalyzeExpression(c, stmt.expression)
      [] stmt.type = "BlockStatement" ->
            IF NeedsBlockScope(stmt.body)
                THEN LET entered == [CreateScope(c, "Block", c.current_scope)
                                         EXCEPT !.current_scope = Len(c.scopes)]
                         walked == AnalyzeStatements(HoistStatements(entered, stmt.body),
                                                     stmt.body)
                     IN  [walked EXCEPT !.current_scope = c.current_scope]
                ELSE AnalyzeStatements(c, stmt.body)
      [] stmt.type = "ExportNamedDeclaration" ->
            MarkLastDeclarationAsExported(AnalyzeStatement(c, stmt.declaration))
AnalyzeStatements(c, body) ==
    IF body = <<>> THEN c ELSE AnalyzeStatements(AnalyzeStatement(c, Head(body)), Tail(body))
AnalyzeExpression(c, e) ==
    CASE e.type = "Identifier" -> ReferenceSymbol(c, e.name, "Read")
      [] e.type = "CallExpression" ->
            AnalyzeExpressions(
                IF e.callee.type = "Identifier"
                    THEN ReferenceSymbol(c, e.callee.name, "Call")
                    ELSE AnalyzeExpression(c, e.callee),
                e.arguments)
      [] e.type = "ArrowFunctionExpression" -> AnalyzeFunctionBody(c, e.body)
      [] OTHER -> c
AnalyzeExpressions(c, es) ==
    IF es = <<>> THEN c ELSE AnalyzeExpressions(AnalyzeExpression(c, Head(es)), Tail(es))

\* analyze_scopes: hoist the program body into the root scope, then walk it
AnalyzeScopesOutcome(body) ==
    LET c0 == ScopeContext(ScopeTreeNew, <<>>, 0, <<>>)
    IN  AnalyzeStatements(HoistStatements(c0, body), body)

\* ---- safety classification (src/src/analyzer/semantic_analysis.rs) ----
\* SemanticAnalysisContext
SemanticContext(scopes, symbols, flags, cur, arrow) ==
    [scopes |-> scopes, symbols |-> symbols, flags |-> flags, current_scope |-> cur,
     in_arrow_function |-> arrow]

\* find_child_scope_of_type: the first child of the parent that has the wanted type
FindChildScopeOfType(c, parent, ty) ==
    LET ch == c.scopes[parent + 1].children
        hits == {i \in 1 .. Len(ch) : c.scopes[ch[i] + 1].scope_type = ty}
    IN  IF hits = {} THEN NoScope ELSE ch[CHOOSE i \in hits : \A j \in hits : i <= j]

\* mark_scope_unsafe
MarkScopeUnsafeScopeOnly(c, scope, reason) ==
    [c EXCEPT !.flags.unsafe_scopes = (scope :> reason) @@ @,
              !.scopes[scope + 1].is_safe = FALSE]
MarkScopeUnsafe(c, scope, reason) ==
    LET ids == {i - 1 : i \in {j \in 1 .. Len(c.symbols) : c.symbols[j].scope_id = scope}}
    IN  [c EXCEPT
            !.flags.unsafe_scopes = (scope :> reason) @@ @,
            !.scopes[scope + 1].is_safe = FALSE,
            !.flags.unsafe_symbols = [id \in ids |-> reason] @@ @,
            !.symbols = [i \in 1 .. Len(c.symbols) |->
                            IF (i - 1) \in ids
                                THEN [c.symbols[i] EXCEPT !.is_renamable = FALSE]
                                ELSE c.symbols[i]]]

\* analyze_statement_semantics / analyze_expression_semantics
RECURSIVE SemStatement(_, _), SemStatements(_, _), SemExpression(_, _), SemExpressions(_, _)
\* enter the function scope found for a function or arrow body, walk it, restore
SemFunctionBody(c, body, arrow) ==
    LET fs == FindChildScopeOfType(c, c.current_scope, "Function")
    IN  IF fs = NoScope THEN c
        ELSE [SemStatements([c EXCEPT !.current_scope = fs, !.in_arrow_function = arrow], body)
                 EXCEPT !.current_scope = c.current_scope,
                        !.in_arrow_function = c.in_arrow_function]
SemStatement(c, stmt) ==
    CASE stmt.type = "FunctionDeclaration" -> SemFunctionBody(c, stmt.body, FALSE)
      [] stmt.type = "ExpressionStatement" -> SemExpression(c, stmt.expression)
      [] stmt.type = "BlockStatement" ->
            LET bs == FindChildScopeOfType(c, c.current_scope, "Block")
            IN  IF bs = NoScope THEN SemStatements(c, stmt.body)
                ELSE [SemStatements([c EXCEPT !.current_scope = bs], stmt.body)
                         EXCEPT !.current_scope = c.current_scope]
      [] stmt.type = "ExportNamedDeclaration" -> SemStatement(c, stmt.declaration)
      [] OTHER -> c
SemStatements(c, body) ==
    IF body = <<>> THEN c ELSE SemStatements(SemStatement(c, Head(body)), Tail(body))
SemExpression(c, e) ==
    CASE e.type = "Identifier" ->
            IF e.name = "eval" THEN MarkScopeUnsafe(c, c.current_scope, "EvalUsage") ELSE c
      [] e.type = "CallExpression" ->
            LET marked == IF e.callee.type = "Identifier" /\ e.callee.name = "eval"
                              THEN MarkScopeUnsafe(c, c.current_scope, "EvalUsage")
                              ELSE c
            IN  SemExpressions(SemExpression(marked, e.callee), e.arguments)
      [] e.type = "ThisExpression" ->
            IF c.in_arrow_function THEN c
            ELSE MarkScopeUnsafe(c, c.current_scope, "DynamicThis")
      [] e.type = "ArrowFunctionExpression" -> SemFunctionBody(c, e.body, TRUE)
      [] OTHER -> c
SemExpressions(c, es) ==
    IF es = <<>> THEN c ELSE SemExpressions(SemExpression(c, Head(es)), Tail(es))

\* reasons that propagate_unsafe_flag_upward carries to the parent
PropagatingReasons == {"EvalUsage", "WithStatement", "ExternalDependency", "Unknown"}

\* propagate_unsafe_flag_upward
RECURSIVE PropagateUnsafeFlagUpward(_, _)
PropagateUnsafeFlagUpward(c, scope) ==
    LET parent == c.scopes[scope + 1].parent_id
    IN  IF parent = NoScope THEN c
        ELSE IF scope \notin DOMAIN c.flags.unsafe_scopes THEN c
        ELSE IF c.flags.unsafe_scopes[scope] \in PropagatingReasons
            THEN PropagateUnsafeFlagUpward(
                     IF parent \notin DOMAIN c.flags.unsafe_scopes
                         THEN MarkScopeUnsafe(c, parent, c.flags.unsafe_scopes[scope])
                         ELSE c,
                     parent)
            ELSE c

InitA ==
    /\ IsProgram(program)
    /\ apc = "parsed"
    /\ scope_tree = ScopeTreeNew
    /\ symbol_table = <<>>
    /\ semantic_flags = SemanticFlagsNew
    /\ reference_log = <<>>
    /\ pending = {}

IdleA ==
    /\ program = <<>>
    /\ apc = "idle"
    /\ scope_tree = ScopeTreeNew
    /\ symbol_table = <<>>
    /\ semantic_flags = SemanticFlagsNew
    /\ reference_log = <<>>
    /\ pending = {}

\* scope_builder::analyze_scopes(ast, ..)
AnalyzeScopes ==
    /\ apc = "parsed"
    /\ LET c == AnalyzeScopesOutcome(program)
       IN  /\ scope_tree' = c.scopes
           /\ symbol_table' = c.symbols
           /\ reference_log' = c.log
    /\ apc' = "scoped"
    /\ UNCHANGED <<program, semantic_flags, pending>>

\* semantic_analysis::analyze_semantics(ast, ..) up to the collection of the unsafe scope keys
AnalyzeSemantics ==
    /\ apc = "scoped"
    /\ LET c == SemStatements(
                    SemanticContext(scope_tree, symbol_table, semantic_flags, 0, FALSE), program)
       IN  /\ scope_tree' = c.scopes
           /\ symbol_table' = c.symbols
           /\ semantic_flags' = c.flags
           /\ pending' = DOMAIN c.flags.unsafe_scopes
           /\ apc' = IF DOMAIN c.flags.unsafe_scopes = {} THEN "done" ELSE "propagating"
    /\ UNCHANGED <<program, reference_log>>

\* one iteration of the loop of propagate_unsafe_flags; the keys come in HashMap order
PropagateUnsafeFlags ==
    /\ apc = "propagating"
    /\ \E s \in pending :
           LET c == PropagateUnsafeFlagUpward(
                        SemanticContext(scope_tree, symbol_table, semantic_flags, 0, FALSE), s)
           IN  /\ scope_tree' = c.scopes
               /\ symbol_table' = c.symbols
               /\ semantic_flags' = c.flags
               /\ pending' = pending \ {s}
               /\ apc' = IF pending \ {s} = {} THEN "done" ELSE "propagating"
    /\ UNCHANGED <<program, reference_log>>


(***************************************************************************)
(* Part III.  Printer                                                      *)
(***************************************************************************)
\* binary operators in a printed program
MaxOps == 2
\* statements in a printed program
MaxStatements == 2

VARIABLES
    pprogram,   \* the Program handed to print_program (its body)
    pconfig,    \* GeneratorConfig: format and semicolon strategy
    output,     \* Printer.output, as the sequence of strings passed to write()
    ppc,        \* position inside print_program: 0 = before the call, i = about to print statement i,
                \* Len(pprogram) + 1 = after the loop, PrintDone = returned, PrintIdle = never called
    presult     \* what print_program returned

pvars == <<pprogram, pconfig, output, ppc, presult>>

PrintDone == -1
PrintIdle == -2

OutputFormats == {"Compact", "Readable", "Pretty"}
SemicolonStrategies == {"Auto", "Always", "Remove"}
GeneratorConfigs == [format : OutputFormats, semicolon : SemicolonStrategies]
\* GeneratorConfig::default()
DefaultGeneratorConfig == [format |-> "Compact", semicolon |-> "Auto"]

BinaryExpression(op, l, r) == [type |-> "BinaryExpression", operator |-> op, left |-> l, right |-> r]
TemplateLiteral(quasi) == [type |-> "TemplateLiteral", quasis |-> <<quasi>>, expressions |-> <<>>]

\* enum Precedence
PrecedenceSequence == 1
PrecedenceAssignment == 3
PrecedenceLogicalOr == 5
PrecedenceLogicalAnd == 6
PrecedenceEquality == 10
PrecedenceAdditive == 13
PrecedenceMultiplicative == 14
PrecedenceExponentiation == 15

\* get_binary_operator_precedence
GetBinaryOperatorPrecedence(op) ==
    CASE op \in {"Add", "Subtract"} -> PrecedenceAdditive
      [] op \in {"Multiply", "Divide", "Remainder"} -> PrecedenceMultiplicative
      [] op = "Exponentiation" -> PrecedenceExponentiation
      [] op \in {"Equal", "NotEqual", "StrictEqual", "StrictNotEqual"} -> PrecedenceEquality
      [] op = "LogicalAnd" -> PrecedenceLogicalAnd
      [] op = "LogicalOr" -> PrecedenceLogicalOr
      [] OTHER -> PrecedenceEquality

\* op_str of print_binary_operator
OperatorString(op) ==
    CASE op = "Add" -> "+"
      [] op = "Subtract" -> "-"
      [] op = "Multiply" -> "*"
      [] op = "Divide" -> "/"
      [] op = "Remainder" -> "%"
      [] op = "Exponentiation" -> "**"
      [] op = "Equal" -> "=="
      [] op = "NotEqual" -> "!="
      [] op = "StrictEqual" -> "==="
      [] op = "StrictNotEqual" -> "!=="
      [] op = "LessThan" -> "<"
      [] op = "LessThanEqual" -> "<="
      [] op = "GreaterThan" -> ">"
      [] op = "GreaterThanEqual" -> ">="
      [] op = "LogicalAnd" -> "&&"
      [] op = "LogicalOr" -> "||"
      [] OTHER -> "/* OP */"

\* print_binary_operator
PrintBinaryOperator(op, cfg) ==
    IF cfg.format = "Compact" THEN <<OperatorString(op)>>
    ELSE <<" ", OperatorString(op), " ">>

\* the grave accent that print_template_literal writes around a template (a string
\* of this notation cannot hold the character itself)
Backtick == "GRAVE"

\* print_expression (with print_binary_expression, print_identifier, print_template_literal)
RECURSIVE PrintExpression(_, _, _)
PrintExpression(e, parent_precedence, cfg) ==
    CASE e.type = "Identifier" -> <<e.name>>
      [] e.type = "BinaryExpression" ->
            LET precedence == GetBinaryOperatorPrecedence(e.operator)
                needs_parens == precedence < parent_precedence
                inner == PrintExpression(e.left, precedence, cfg)
                         \o PrintBinaryOperator(e.operator, cfg)
                         \o PrintExpression(e.right, precedence, cfg)
            IN  IF needs_parens THEN <<"(">> \o inner \o <<")">> ELSE inner
      [] e.type = "TemplateLiteral" -> <<Backtick, e.quasis[1], Backtick>>
      [] e.type = "ThisExpression" -> <<"this">>
      [] e.type = "Literal" -> <<e.value>>
      [] OTHER -> <<"/* EXPR */">>

\* needs_semicolon_for_asi
NeedsSemicolonForAsi == TRUE

\* print_semicolon_if_needed
PrintSemicolonIfNeeded(cfg) ==
    CASE cfg.semicolon = "Always" -> <<";">>
      [] cfg.semicolon = "Auto" -> IF NeedsSemicolonForAsi THEN <<";">> ELSE <<>>
      [] cfg.semicolon = "Remove" -> <<>>

\* print_newline_if_needed (NewlineStyle::Lf)
PrintNewlineIfNeeded(cfg) == IF cfg.format = "Compact" THEN <<>> ELSE <<"\n">>

\* print_statement_separator
PrintStatementSeparator(cfg) == IF cfg.format = "Compact" THEN <<>> ELSE PrintNewlineIfNeeded(cfg)

\* print_space_if_needed: a space in every format
PrintSpaceIfNeeded(cfg) ==
    CASE cfg.format = "Compact" -> <<" ">>
      [] cfg.format \in {"Readable", "Pretty"} -> <<" ">>

\* print_indent_if_needed: "  ".repeat(indent_level), in Pretty format only
PrintIndentIfNeeded(cfg, level) ==
    IF cfg.format = "Pretty" /\ level > 0 THEN [i \in 1 .. level |-> "  "] ELSE <<>>

\* print_parameter_list (print_pattern of an identifier pattern)
RECURSIVE PrintParameterList(_, _)
PrintParameterList(params, cfg) ==
    IF params = <<>> THEN <<>>
    ELSE IF Len(params) = 1 THEN <<params[1]>>
    ELSE PrintParameterList(SubSeq(params, 1, Len(params) - 1), cfg)
            \o <<",">> \o PrintSpaceIfNeeded(cfg) \o <<params[Len(params)]>>

\* print_statement (print_variable_declaration, print_function_declaration,
\* print_expression_statement, print_block_statement, print_return_statement)
\* at an indent level, and the loop of print_block_statement_body over a body
RECURSIVE PrintStatementAt(_, _, _)
RECURSIVE PrintBlockStatementBody(_, _, _)
RECURSIVE PrintBlockStatements(_, _, _)
PrintBlockStatements(body, cfg, level) ==
    IF body = <<>> THEN <<>>
    ELSE PrintIndentIfNeeded(cfg, level)
            \o PrintStatementAt(Head(body), cfg, level)
            \o PrintNewlineIfNeeded(cfg)
            \o PrintBlockStatements(Tail(body), cfg, level)

\* print_block_statement_body
PrintBlockStatementBody(body, cfg, level) ==
    IF body = <<>> THEN <<"{", "}">>
    ELSE <<"{">> \o PrintNewlineIfNeeded(cfg)
            \o PrintBlockStatements(body, cfg, level + 1)
            \o PrintIndentIfNeeded(cfg, level) \o <<"}">>

PrintStatementAt(stmt, cfg, level) ==
    CASE stmt.type = "VariableDeclaration" ->
            <<stmt.kind>> \o PrintSpaceIfNeeded(cfg) \o <<stmt.id>> \o PrintSemicolonIfNeeded(cfg)
      [] stmt.type = "FunctionDeclaration" ->
            <<"function">> \o PrintSpaceIfNeeded(cfg) \o <<stmt.id>>
                \o <<"(">> \o PrintParameterList(stmt.params, cfg) \o <<")">>
                \o PrintBlockStatementBody(stmt.body, cfg, level)
      [] stmt.type = "ExpressionStatement" ->
            PrintExpression(stmt.expression, PrecedenceSequence, cfg)
                \o PrintSemicolonIfNeeded(cfg)
      [] stmt.type = "BlockStatement" -> PrintBlockStatementBody(stmt.body, cfg, level)
      [] stmt.type = "ReturnStatement" ->
            <<"return">> \o PrintSpaceIfNeeded(cfg)
                \o PrintExpression(stmt.argument, PrecedenceSequence, cfg)
                \o PrintSemicolonIfNeeded(cfg)
      [] OTHER -> <<"/* STMT */">>

\* print_statement, called by print_program at indent level 0
PrintStatement(stmt, cfg) == PrintStatementAt(stmt, cfg, 0)

\* expressions with exactly n binary operators over the identifier a
PrintedOperators == {"Subtract", "Multiply", "Exponentiation"}
RECURSIVE ExpressionsWithOps(_)
ExpressionsWithOps(n) ==
    IF n = 0 THEN {Identifier("a")}
    ELSE UNION {{BinaryExpression(op, l, r) :
                    op \in PrintedOperators,
                    l \in ExpressionsWithOps(k),
                    r \in ExpressionsWithOps(n - 1 - k)} : k \in 0 .. (n - 1)}

\* statements with exactly k binary operators
StatementsWithOps(k) ==
    {ExpressionStatement(e) : e \in ExpressionsWithOps(k)}
        \cup (IF k = 0 THEN {ExpressionStatement(TemplateLiteral("x")),
                             VariableDeclaration("let", "x")}
                       ELSE {})

\* statement lists of length n with at most ops binary operators in all
RECURSIVE ProgramsWithin(_, _)
ProgramsWithin(n, ops) ==
    IF n = 0 THEN {<<>>}
    ELSE UNION {{<<st>> \o rest : st \in StatementsWithOps(k),
                                  rest \in ProgramsWithin(n - 1, ops - k)} : k \in 0 .. ops}

PrintedPrograms == UNION {ProgramsWithin(n, MaxOps) : n \in 0 .. MaxStatements}

InitP ==
    /\ pprogram \in PrintedPrograms
    /\ pconfig \in GeneratorConfigs
    /\ output = <<>>
    /\ ppc = 0
    /\ presult = "none"

IdleP ==
    /\ pprogram = <<>>
    /\ pconfig = DefaultGeneratorConfig
    /\ output = <<>>
    /\ ppc = PrintIdle
    /\ presult = "none"

\* print_program: clear the buffers and validate the program
PrintProgramStart ==
    /\ ppc = 0
    /\ output' = <<>>
    /\ ppc' = 1
    /\ UNCHANGED <<pprogram, pconfig, presult>>

\* print_program: one iteration of the loop over program.body
PrintProgramStatement ==
    /\ ppc \in 1 .. Len(pprogram)
    /\ output' = output
                    \o (IF ppc > 1 THEN PrintStatementSeparator(pconfig) ELSE <<>>)
                    \o PrintStatement(pprogram[ppc], pconfig)
    /\ ppc' = ppc + 1
    /\ UNCHANGED <<pprogram, pconfig, presult>>

\* print_program: the final newline of the readable formats and the return
PrintProgramFinish ==
    /\ ppc = Len(pprogram) + 1
    /\ output' = IF pconfig.format \in {"Readable", "Pretty"} /\ Len(pprogram) > 0
                     THEN output \o PrintNewlineIfNeeded(pconfig)
                     ELSE output
    /\ presult' = "Ok"
    /\ ppc' = PrintDone
    /\ UNCHANGED <<pprogram, pconfig>>


\* ---- from the parsed program to the printed text ----

\* the statements of a parsed program: function f(a,b){return a+b*2;}  a;  let x
\* if (a) a;  throw a;  this;  a();
OxcStatements ==
    {[FunctionDeclaration("f",
          <<[type |-> "ReturnStatement",
             argument |-> BinaryExpression("Add", Identifier("a"),
                              BinaryExpression("Multiply", Identifier("b"),
                                  [type |-> "Literal", value |-> "2"]))]>>)
        EXCEPT !.params = <<"a", "b">>],
     ExpressionStatement(Identifier("a")),
     VariableDeclaration("let", "x"),
     [type |-> "IfStatement", test |-> Identifier("a"),
      consequent |-> ExpressionStatement(Identifier("a"))],
     [type |-> "ThrowStatement", argument |-> Identifier("a")],
     ExpressionStatement(ThisExpression),
     ExpressionStatement(CallExpression(Identifier("a"), <<>>))}

OxcPrograms == UNION {[1 .. n -> OxcStatements] : n \in 0 .. MaxStatements}

\* Expression::from_oxc returns Some
RECURSIVE ExpressionFromOxcIsSome(_)
ExpressionFromOxcIsSome(e) ==
    CASE e.type \in {"Identifier", "Literal", "TemplateLiteral"} -> TRUE
      [] e.type = "BinaryExpression" ->
            ExpressionFromOxcIsSome(e.left) /\ ExpressionFromOxcIsSome(e.right)
      [] e.type = "CallExpression" -> ExpressionFromOxcIsSome(e.callee)
      [] OTHER -> FALSE

\* Statement::from_oxc, as the list of the zero or one statements it yields, and
\* the filter_map over a list of statements (Program::from_oxc for the top level)
RECURSIVE StatementFromOxc(_)
RECURSIVE ProgramFromOxc(_)
ProgramFromOxc(body) ==
    IF body = <<>> THEN <<>> ELSE StatementFromOxc(Head(body)) \o ProgramFromOxc(Tail(body))

StatementFromOxc(s) ==
    CASE s.type = "VariableDeclaration" -> <<s>>
      [] s.type = "FunctionDeclaration" -> <<[s EXCEPT !.body = ProgramFromOxc(s.body)]>>
      [] s.type = "ExpressionStatement" ->
            IF ExpressionFromOxcIsSome(s.expression) THEN <<s>> ELSE <<>>
      [] s.type = "BlockStatement" -> <<[s EXCEPT !.body = ProgramFromOxc(s.body)]>>
      [] s.type = "ReturnStatement" -> <<s>>
      [] s.type = "IfStatement" ->
            IF ExpressionFromOxcIsSome(s.test) /\ StatementFromOxc(s.consequent) # <<>>
                THEN <<s>> ELSE <<>>
      [] OTHER -> <<>>

\* a successfully parsed program, before convert_parser_result
InitParsed ==
    /\ pprogram \in OxcPrograms
    /\ pconfig \in GeneratorConfigs
    /\ output = <<>>
    /\ ppc = PrintIdle
    /\ presult = "none"

\* convert_parser_result: the AST handed on is Program::from_oxc of the parsed program
ConvertParserResult ==
    /\ ppc = PrintIdle
    /\ pprogram' = ProgramFromOxc(pprogram)
    /\ ppc' = 0
    /\ UNCHANGED <<pconfig, output, presult>>


(***************************************************************************)
(* Part IV.  Driver: compile_file                                          *)
(***************************************************************************)
VARIABLES
    dconfig,   \* CompilerConfig: verbose, and whether output_file / input_file are given
    dfs,       \* the file system: whether the input file exists and can be read, what the
               \* output path held before the call and what it holds now
    dpc,       \* position inside compile_file: the stage about to run, "returned" or "idle"
    dran,      \* the stages that have run, in order
    dresult    \* what compile_file returned

dvars == <<dconfig, dfs, dpc, dran, dresult>>

\* the stages of compile_file in the order of its text
Stages == <<"parse", "analyze", "transform", "generate", "write">>

CompilerConfigs == [verbose : BOOLEAN, output_file : BOOLEAN, input_file : BOOLEAN]

\* outcomes of a stage that returns a Result
StageOutcomes == {"Ok", "Err"}

InitD ==
    /\ dconfig \in CompilerConfigs
    /\ dfs \in [input_exists : BOOLEAN, input_readable : BOOLEAN,
                 output_before : {"absent", "old"}, output : {"absent", "old"}]
    /\ dfs.output = dfs.output_before
    /\ dpc = "start"
    /\ dran = <<>>
    /\ dresult = "none"

IdleD ==
    /\ dconfig = [verbose |-> FALSE, output_file |-> FALSE, input_file |-> FALSE]
    /\ dfs = [input_exists |-> FALSE, input_readable |-> FALSE,
              output_before |-> "absent", output |-> "absent"]
    /\ dpc = "idle"
    /\ dran = <<>>
    /\ dresult = "none"

\* file_path.exists() and std::fs::read_to_string(file_path)
CompileFileRead ==
    /\ dpc = "start"
    /\ IF dfs.input_exists /\ dfs.input_readable
          THEN dpc' = "parse" /\ UNCHANGED dresult
          ELSE dpc' = "returned" /\ dresult' = "FileNotFound"
    /\ UNCHANGED <<dconfig, dfs, dran>>

\* the `?` (or the early return) after a stage: go on to the next stage or return the error
AfterStage(next_stage, outcome) ==
    IF outcome = "Ok" THEN [pc |-> next_stage, result |-> "none"]
                      ELSE [pc |-> "returned", result |-> "ParseError"]

\* parser::parse_js and the check of parse_result.errors / parse_result.ast
ParseStage ==
    /\ dpc = "parse"
    /\ dran' = Append(dran, "parse")
    /\ \E o \in StageOutcomes :
           /\ dpc' = AfterStage("analyze", o).pc
           /\ dresult' = AfterStage("analyze", o).result
    /\ UNCHANGED <<dconfig, dfs>>

\* analyzer::analyze_ast(&ast, &analyzer_config)?
AnalyzeStage ==
    /\ dpc = "analyze"
    /\ dran' = Append(dran, "analyze")
    /\ \E o \in StageOutcomes :
           /\ dpc' = AfterStage("transform", o).pc
           /\ dresult' = AfterStage("transform", o).result
    /\ UNCHANGED <<dconfig, dfs>>

\* transformer::transform_ast(ast, analysis_result)?
TransformStage ==
    /\ dpc = "transform"
    /\ dran' = Append(dran, "transform")
    /\ \E o \in StageOutcomes :
           /\ dpc' = AfterStage("generate", o).pc
           /\ dresult' = AfterStage("generate", o).result
    /\ UNCHANGED <<dconfig, dfs>>

\* generator.generate(&transformation_result.transformed_ast, Some(&source_code))?
GenerateStage ==
    /\ dpc = "generate"
    /\ dran' = Append(dran, "generate")
    /\ \E o \in StageOutcomes :
           /\ dpc' = AfterStage("write", o).pc
           /\ dresult' = AfterStage("write", o).result
    /\ UNCHANGED <<dconfig, dfs>>

\* std::fs::write(&output_path, &generation_result.code)? and the final Ok(()).
\* std::fs::write is File::create followed by write_all: it succeeds, fails
\* before the file is created or truncated, or fails after it, and the output
\* path then holds the generated code, what it held, or an incomplete file
WriteStage ==
    /\ dpc = "write"
    /\ dran' = Append(dran, "write")
    /\ \E o \in {"Ok", "ErrCreate", "ErrWriteAll"} :
           /\ dfs' = [dfs EXCEPT !.output = CASE o = "Ok" -> "code"
                                              [] o = "ErrCreate" -> @
                                              [] o = "ErrWriteAll" -> "partial"]
           /\ dresult' = IF o = "Ok" THEN "Ok" ELSE "ParseError"
    /\ dpc' = "returned"
    /\ UNCHANGED dconfig


(***************************************************************************)
(* Part V.  Printer: output size and performance metrics                   *)
(*                                                                         *)
(* print_program seen through the number of bytes it writes: a statement   *)
(* is the number of bytes print_statement writes for it.                   *)
(***************************************************************************)
VARIABLES
    mconfig,        \* GeneratorConfig: format and newline
    mbody,          \* program.body of the running or last call: bytes per statement
    output_len,     \* self.output.len()
    chars_written,  \* self.chars_written
    mpc,            \* index of the next statement, PrintDone or PrintIdle
    mresult,        \* what the last print_program returned
    mcalls          \* number of print_program calls made on this Printer

mvars == <<mconfig, mbody, output_len, chars_written, mpc, mresult, mcalls>>

MaxSizedStatements == 2
MaxPrintCalls == 2

\* const MAX_OUTPUT_SIZE: usize = 10 * 1024 * 1024
MAX_OUTPUT_SIZE == 10485760
\* the period of the check inside the loop: if i % 100 == 0
CheckPeriod == 100

\* bytes written by print_statement: a short statement, and one that fills the cap
StatementSizes == {1, MAX_OUTPUT_SIZE}

SizedBodies == UNION {[1..n -> StatementSizes] : n \in 0..MaxSizedStatements}

\* bytes written by print_newline_if_needed
NewlineSize(c) ==
    IF c.format = "Compact" THEN 0
    ELSE IF c.newline = "Lf" THEN 1 ELSE 2

\* check_memory_limits: Err when the output is longer than the cap
CheckMemoryLimits(len) == IF len > MAX_OUTPUT_SIZE THEN "OutputSizeLimitExceeded" ELSE "Ok"

\* Printer::new
InitM ==
    /\ mconfig \in [format : OutputFormats, newline : {"Lf", "Crlf"}]
    /\ mbody = <<>>
    /\ output_len = 0
    /\ chars_written = 0
    /\ mpc = PrintDone
    /\ mresult = "none"
    /\ mcalls = 0

IdleM ==
    /\ mconfig = [format |-> "Compact", newline |-> "Lf"]
    /\ mbody = <<>>
    /\ output_len = 0
    /\ chars_written = 0
    /\ mpc = PrintIdle
    /\ mresult = "none"
    /\ mcalls = 0

\* print_program, up to the loop: output.clear() and warnings.clear()
SizedPrintProgramStart ==
    /\ mpc = PrintDone
    /\ mcalls < MaxPrintCalls
    /\ mbody' \in SizedBodies
    /\ output_len' = 0
    /\ mpc' = 0
    /\ mresult' = "none"
    /\ mcalls' = mcalls + 1
    /\ UNCHANGED <<mconfig, chars_written>>

\* print_program, one turn of the loop: the separator, the periodic check, the statement
SizedPrintProgramStatement ==
    /\ mpc >= 0 /\ mpc < Len(mbody)
    /\ LET sep == IF mpc > 0 THEN NewlineSize(mconfig) ELSE 0
           check == IF mpc % CheckPeriod = 0 THEN CheckMemoryLimits(output_len + sep) ELSE "Ok"
           written == IF check = "Ok" THEN sep + mbody[mpc + 1] ELSE sep
       IN  /\ output_len' = output_len + written
           /\ chars_written' = chars_written + written
           /\ IF check = "Ok"
                 THEN mpc' = mpc + 1 /\ UNCHANGED mresult
                 ELSE mpc' = PrintDone /\ mresult' = check
    /\ UNCHANGED <<mconfig, mbody, mcalls>>

\* print_program, after the loop: the final check, the final newline, the return
SizedPrintProgramFinish ==
    /\ mpc >= 0 /\ mpc = Len(mbody)
    /\ LET check == CheckMemoryLimits(output_len)
           written == IF check = "Ok" /\ Len(mbody) > 0 THEN NewlineSize(mconfig) ELSE 0
       IN  /\ output_len' = output_len + written
           /\ chars_written' = chars_written + written
           /\ mresult' = check
    /\ mpc' = PrintDone
    /\ UNCHANGED <<mconfig, mbody, mcalls>>

\* Printer::reset
PrinterReset ==
    /\ mpc = PrintDone
    /\ output_len' = 0
    /\ chars_written' = 0
    /\ UNCHANGED <<mconfig, mbody, mpc, mresult, mcalls>>


(***************************************************************************)
(* Part VI.  Source maps: SourceMapBuilder and the mappings string         *)
(***************************************************************************)
VARIABLES
    sources,        \* SourceMapBuilder.sources
    source_lookup,  \* SourceMapBuilder.source_lookup: path -> index
    names,          \* SourceMapBuilder.names
    name_lookup,    \* SourceMapBuilder.name_lookup: name -> index
    mappings,       \* SourceMapBuilder.mappings: generated line -> segments in call order
    slast,          \* the last call that returned a value: op, arg, returned
    spc,            \* "building", "built" (the builder is consumed by build) or "idle"
    encoded         \* the mappings string of the built SourceMap, one element per character

svars == <<sources, source_lookup, names, name_lookup, mappings, slast, spc, encoded>>

\* digits after which the model stops following the loop of encode_vlq; an i32
\* has 32 bits and a digit carries 5, so a loop that ends has ended by then
MaxVlqDigits == 8

I32Min == -2147483647 - 1

\* encode_base64_digit
EncodeBase64Digit(value) ==
    LET upper == <<"A","B","C","D","E","F","G","H","I","J","K","L","M",
                   "N","O","P","Q","R","S","T","U","V","W","X","Y","Z">>
        lower == <<"a","b","c","d","e","f","g","h","i","j","k","l","m",
                   "n","o","p","q","r","s","t","u","v","w","x","y","z">>
        digit == <<"0","1","2","3","4","5","6","7","8","9">>
    IN  CASE value \in 0 .. 25 -> upper[value + 1]
          [] value \in 26 .. 51 -> lower[value - 26 + 1]
          [] value \in 52 .. 61 -> digit[value - 52 + 1]
          [] value = 62 -> "+"
          [] value = 63 -> "/"

\* the loop of encode_vlq on the i32 vlq, followed for at most n digits:
\* vlq & 0x1f, the arithmetic shift vlq >>= 5, the continuation bit
RECURSIVE EncodeVlqLoop(_, _)
EncodeVlqLoop(vlq, n) ==
    LET low == vlq % 32
        rest == vlq \div 32
        digit == IF rest # 0 THEN low + 32 ELSE low
    IN  IF rest = 0 THEN [text |-> <<EncodeBase64Digit(digit)>>, finished |-> TRUE]
        ELSE IF n = 1 THEN [text |-> <<EncodeBase64Digit(digit)>>, finished |-> FALSE]
        ELSE LET more == EncodeVlqLoop(rest, n - 1)
             IN  [text |-> <<EncodeBase64Digit(digit)>> \o more.text, finished |-> more.finished]

\* encode_vlq(value: i32).  value.abs() overflows for i32::MIN: a panic where
\* overflow checks are compiled in, i32::MIN where they are not; value << 1
\* drops the bit shifted out of the i32
EncodeVlq(value, overflow_checks) ==
    IF value = I32Min /\ overflow_checks
        THEN [text |-> <<>>, finished |-> FALSE, panicked |-> TRUE]
    ELSE LET sign == IF value < 0 THEN 1 ELSE 0
             abs == IF value = I32Min THEN I32Min ELSE IF value < 0 THEN -value ELSE value
             shifted == IF abs = I32Min THEN 0
                        ELSE IF abs >= 2 ^ 30 THEN I32Min + (abs - 2 ^ 30) * 2
                        ELSE abs * 2
             loop == EncodeVlqLoop(shifted + sign, MaxVlqDigits)
         IN  [text |-> loop.text, finished |-> loop.finished, panicked |-> FALSE]

\* ---- SourceMapBuilder ----

\* segments added to one builder
MaxMappings == 2

\* add_source without the look-up that finds a path added before
AddSourceAlwaysPush(list, lookup, source_path) ==
    [list |-> Append(list, source_path),
     lookup |-> [p \in DOMAIN lookup \cup {source_path} |->
                    IF p = source_path THEN Len(list) ELSE lookup[p]],
     index |-> Len(list)]

\* add_source on (sources, source_lookup): the lists after the call and the index returned
AddSource(list, lookup, source_path) ==
    IF source_path \in DOMAIN lookup
        THEN [list |-> list, lookup |-> lookup, index |-> lookup[source_path]]
        ELSE [list |-> Append(list, source_path),
              lookup |-> [p \in DOMAIN lookup \cup {source_path} |->
                             IF p = source_path THEN Len(list) ELSE lookup[p]],
              index |-> Len(list)]

\* add_name on (names, name_lookup)
AddName(list, lookup, name) ==
    IF name \in DOMAIN lookup
        THEN [list |-> list, lookup |-> lookup, index |-> lookup[name]]
        ELSE [list |-> Append(list, name),
              lookup |-> [p \in DOMAIN lookup \cup {name} |->
                             IF p = name THEN Len(list) ELSE lookup[p]],
              index |-> Len(list)]

\* sorted_segments.sort_by_key(|s| s.generated_column): a stable sort
RECURSIVE SortByGeneratedColumn(_)
SortByGeneratedColumn(segments) ==
    IF segments = <<>> THEN <<>>
    ELSE LET least == CHOOSE i \in 1 .. Len(segments) :
                          \A j \in 1 .. Len(segments) :
                              \/ segments[i].generated_column < segments[j].generated_column
                              \/ /\ segments[i].generated_column = segments[j].generated_column
                                 /\ i <= j
         IN  <<segments[least]>>
                \o SortByGeneratedColumn([k \in 1 .. (Len(segments) - 1) |->
                        IF k < least THEN segments[k] ELSE segments[k + 1]])

\* a segment written as its generated column alone, not relative to the base
EncodeSegmentAbsolute(segment, prev) ==
    [text |-> EncodeVlq(segment.generated_column, FALSE).text, prev |-> prev]

\* encode_mappings, the body of the loop over the segments of a line: the text of
\* one segment and the bases after it
EncodeSegment(segment, prev) ==
    LET column == EncodeVlq(segment.generated_column - prev.generated_column, FALSE).text
        prev1 == [prev EXCEPT !.generated_column = segment.generated_column]
    IN  IF segment.source_index # <<>> /\ segment.original_line # <<>>
           /\ segment.original_column # <<>>
        THEN LET source == EncodeVlq(segment.source_index[1] - prev.source_index, FALSE).text
                           \o EncodeVlq(segment.original_line[1] - prev.original_line, FALSE).text
                           \o EncodeVlq(segment.original_column[1] - prev.original_column, FALSE).text
                 prev2 == [prev1 EXCEPT !.source_index = segment.source_index[1],
                                        !.original_line = segment.original_line[1],
                                        !.original_column = segment.original_column[1]]
             IN  IF segment.name_index # <<>>
                 THEN [text |-> column \o source
                                   \o EncodeVlq(segment.name_index[1] - prev.name_index, FALSE).text,
                       prev |-> [prev2 EXCEPT !.name_index = segment.name_index[1]]]
                 ELSE [text |-> column \o source, prev |-> prev2]
        ELSE [text |-> column, prev |-> prev1]

\* encode_mappings, the loop over the sorted segments of a line
RECURSIVE EncodeSegments(_, _, _)
EncodeSegments(segments, prev, seg_idx) ==
    IF segments = <<>> THEN [text |-> <<>>, prev |-> prev]
    ELSE LET one == EncodeSegment(Head(segments), prev)
             rest == EncodeSegments(Tail(segments), one.prev, seg_idx + 1)
         IN  [text |-> (IF seg_idx > 0 THEN <<",">> ELSE <<>>) \o one.text \o rest.text,
              prev |-> rest.prev]

\* encode_mappings from the line_idx-th key of sorted_lines on, with the bases
\* reached so far; encode_mappings itself starts at key 0 with all bases 0
RECURSIVE EncodeMappings(_, _, _)
EncodeMappings(maps, prev, line_idx) ==
    LET sorted_lines == {l \in DOMAIN maps : Cardinality({k \in DOMAIN maps : k < l}) >= line_idx}
    IN  IF sorted_lines = {} THEN <<>>
        ELSE LET line == CHOOSE l \in sorted_lines : \A k \in sorted_lines : l <= k
                 segs == EncodeSegments(SortByGeneratedColumn(maps[line]),
                                        [prev EXCEPT !.generated_column = 0], 0)
             IN  (IF line_idx > 0 THEN <<";">> ELSE <<>>)
                    \o segs.text \o EncodeMappings(maps, segs.prev, line_idx + 1)

\* SourceMapBuilder::new
InitS ==
    /\ sources = <<>>
    /\ source_lookup = <<>>
    /\ names = <<>>
    /\ name_lookup = <<>>
    /\ mappings = <<>>
    /\ slast = [op |-> "none"]
    /\ spc = "building"
    /\ encoded = <<>>

IdleS ==
    /\ sources = <<>>
    /\ source_lookup = <<>>
    /\ names = <<>>
    /\ name_lookup = <<>>
    /\ mappings = <<>>
    /\ slast = [op |-> "none"]
    /\ spc = "idle"
    /\ encoded = <<>>

\* add_source
AddSourceCall ==
    /\ spc = "building"
    /\ \E source_path \in {"a.js", "b.js"} :
           LET r == AddSource(sources, source_lookup, source_path)
           IN  /\ sources' = r.list
               /\ source_lookup' = r.lookup
               /\ slast' = [op |-> "add_source", arg |-> source_path, returned |-> r.index]
    /\ UNCHANGED <<names, name_lookup, mappings, spc, encoded>>

\* add_name
AddNameCall ==
    /\ spc = "building"
    /\ \E name \in {"x", "y"} :
           LET r == AddName(names, name_lookup, name)
           IN  /\ names' = r.list
               /\ name_lookup' = r.lookup
               /\ slast' = [op |-> "add_name", arg |-> name, returned |-> r.index]
    /\ UNCHANGED <<sources, source_lookup, mappings, spc, encoded>>

\* add_mapping of a Mapping on generated line 0 or 2, at column 0 or 4: without
\* source information, with it, with a name, or with an original position but
\* no source index (an Option is <<>> for None, <<v>> for Some(v))
AddMappingCall ==
    /\ spc = "building"
    /\ Cardinality({li \in (DOMAIN mappings) \X (1 .. MaxMappings) :
                        li[2] <= Len(mappings[li[1]])}) < MaxMappings
    /\ \E mapping \in
           {[generated |-> [line |-> l, column |-> c], original |-> o.original,
             source_index |-> o.source_index, name_index |-> o.name_index] :
               l \in {0, 2}, c \in {0, 4},
               o \in {[original |-> <<>>, source_index |-> <<>>, name_index |-> <<>>],
                      [original |-> <<[line |-> 3, column |-> 1]>>, source_index |-> <<1>>,
                       name_index |-> <<>>],
                      [original |-> <<[line |-> 0, column |-> 0]>>, source_index |-> <<0>>,
                       name_index |-> <<1>>],
                      [original |-> <<[line |-> 3, column |-> 1]>>, source_index |-> <<>>,
                       name_index |-> <<>>]}} :
           LET segment == [generated_column |-> mapping.generated.column,
                           source_index |-> mapping.source_index,
                           original_line |-> IF mapping.original = <<>> THEN <<>>
                                             ELSE <<mapping.original[1].line>>,
                           original_column |-> IF mapping.original = <<>> THEN <<>>
                                               ELSE <<mapping.original[1].column>>,
                           name_index |-> mapping.name_index]
               line == mapping.generated.line
           IN  mappings' = [l \in DOMAIN mappings \cup {line} |->
                               IF l = line
                                   THEN (IF l \in DOMAIN mappings THEN mappings[l] ELSE <<>>)
                                            \o <<segment>>
                                   ELSE mappings[l]]
    /\ UNCHANGED <<sources, source_lookup, names, name_lookup, slast, spc, encoded>>

\* build: SourceMap::from_builder, which encodes the mappings
Build ==
    /\ spc = "building"
    /\ encoded' = EncodeMappings(mappings,
                       [generated_column |-> 0, source_index |-> 0, original_line |-> 0,
                        original_column |-> 0, name_index |-> 0], 0)
    /\ spc' = "built"
    /\ UNCHANGED <<sources, source_lookup, names, name_lookup, mappings, slast>>

\* encode_vlq, called on its own with an i32: small deltas of either sign and
\* values at the ends of the ranges of 1, 2, 6 and 7 digits and of the i32
EncodeVlqCall ==
    /\ spc = "building"
    /\ \E value \in (-48 .. 48) \cup {511, 512, -512, 2 ^ 29, 2 ^ 30 - 1, 2 ^ 30, -(2 ^ 30),
                                        2147483647, -2147483647, I32Min},
          overflow_checks \in BOOLEAN :
           slast' = [op |-> "encode_vlq", arg |-> value,
                     returned |-> EncodeVlq(value, overflow_checks)]
    /\ UNCHANGED <<sources, source_lookup, names, name_lookup, mappings, spc, encoded>>


vars == <<tvars, avars, pvars, dvars, mvars, svars>>

\* the variables each part leaves alone
restT == <<avars, pvars, dvars, mvars, svars>>
restA == <<tvars, pvars, dvars, mvars, svars>>
restP == <<tvars, avars, dvars, mvars, svars>>
restD == <<tvars, avars, pvars, mvars, svars>>
restM == <<tvars, avars, pvars, dvars, svars>>
restS == <<tvars, avars, pvars, dvars, mvars>>

\* the transformer and rollback manager
Init == InitT /\ IdleA /\ IdleP /\ IdleD /\ IdleM /\ IdleS
Next ==
    \/ TransformerNew /\ UNCHANGED restT
    \/ RollbackManagerNew /\ UNCHANGED restT
    \/ TransformStart /\ UNCHANGED restT
    \/ (\E p \in Passes : TransformPass(p)) /\ UNCHANGED restT
    \/ TransformReturn /\ UNCHANGED restT
    \/ CreateCheckpointCall /\ UNCHANGED restT
    \/ RollbackToLastCall /\ UNCHANGED restT
    \/ RollbackToPassCall /\ UNCHANGED restT
    \/ ClearCheckpointsCall /\ UNCHANGED restT
    \/ SafeTransformCall /\ UNCHANGED restT
Spec == Init /\ [][Next]_vars

\* the analyzer
InitAnalyzer == InitA /\ InitT /\ IdleP /\ IdleD /\ IdleM /\ IdleS
NextAnalyzer ==
    \/ AnalyzeScopes /\ UNCHANGED restA
    \/ AnalyzeSemantics /\ UNCHANGED restA
    \/ PropagateUnsafeFlags /\ UNCHANGED restA
SpecAnalyzer == InitAnalyzer /\ [][NextAnalyzer]_vars

\* the printer
InitPrinter == InitP /\ InitT /\ IdleA /\ IdleD /\ IdleM /\ IdleS
NextPrinter ==
    \/ PrintProgramStart /\ UNCHANGED restP
    \/ PrintProgramStatement /\ UNCHANGED restP
    \/ PrintProgramFinish /\ UNCHANGED restP
SpecPrinter == InitPrinter /\ [][NextPrinter]_vars

\* from the parsed program to the printed text
InitPipeline == InitParsed /\ InitT /\ IdleA /\ IdleD /\ IdleM /\ IdleS
NextPipeline ==
    \/ ConvertParserResult /\ UNCHANGED restP
    \/ PrintProgramStart /\ UNCHANGED restP
    \/ PrintProgramStatement /\ UNCHANGED restP
    \/ PrintProgramFinish /\ UNCHANGED restP
SpecPipeline == InitPipeline /\ [][NextPipeline]_vars

\* the driver
InitDriver == InitD /\ InitT /\ IdleA /\ IdleP /\ IdleM /\ IdleS
NextDriver ==
    \/ CompileFileRead /\ UNCHANGED restD
    \/ ParseStage /\ UNCHANGED restD
    \/ AnalyzeStage /\ UNCHANGED restD
    \/ TransformStage /\ UNCHANGED restD
    \/ GenerateStage /\ UNCHANGED restD
    \/ WriteStage /\ UNCHANGED restD
SpecDriver == InitDriver /\ [][NextDriver]_vars

\* the printer's output size and metrics
InitMetrics == InitM /\ InitT /\ IdleA /\ IdleP /\ IdleD /\ IdleS
NextMetrics ==
    \/ SizedPrintProgramStart /\ UNCHANGED restM
    \/ SizedPrintProgramStatement /\ UNCHANGED restM
    \/ SizedPrintProgramFinish /\ UNCHANGED restM
    \/ PrinterReset /\ UNCHANGED restM
SpecMetrics == InitMetrics /\ [][NextMetrics]_vars

\* the source map builder: mappings added and built into the mappings string
InitSourceMap == InitS /\ InitT /\ IdleA /\ IdleP /\ IdleD /\ IdleM
NextSourceMap ==
    \/ AddMappingCall /\ UNCHANGED restS
    \/ Build /\ UNCHANGED restS
SpecSourceMap == InitSourceMap /\ [][NextSourceMap]_vars

\* the source map builder: the calls that return a value
NextSourceMapCalls ==
    \/ AddSourceCall /\ UNCHANGED restS
    \/ AddNameCall /\ UNCHANGED restS
    \/ EncodeVlqCall /\ UNCHANGED restS
SpecSourceMapCalls == InitSourceMap /\ [][NextSourceMapCalls]_vars

(***************************************************************************)
(* Properties of Part I                                                    *)
(***************************************************************************)

C3_CheckpointBeforeEveryPass ==
    [][\A p \in Passes :
          (obj = "Transformer" /\ pc = p /\ config.enabled[p] /\ config.enable_rollback)
              => /\ Len(checkpoints') > 0
                 /\ checkpoints'[Len(checkpoints')] = Checkpoint(ast, PassName[p])]_vars

\* C4: safe_transform returns the transformed tree when transform_fn succeeded
\* and validation passed, and otherwise a tree equal to its argument, for every
\* prior checkpoint stack and every max_checkpoints.
C4_SafeTransformAllOrNothing ==
    call.fn_result # "none" =>
        IF call.fn_result = "Ok" /\ ValidateTransformation(call.ast, call.fn_ast)
            THEN call.returned = Ok(call.fn_ast)
            ELSE call.returned = Ok(call.ast)

\* the newest n elements of a sequence, in their order
Newest(seq, n) == SubSeq(seq, Len(seq) - n + 1, Len(seq))

Min(a, b) == IF a < b THEN a ELSE b

\* the stack create_checkpoint leaves when eviction is first-in first-out: the
\* newest entries of the old stack followed by the new checkpoint, as many as
\* the limit allows
FifoStack ==
    LET all == Append(call.before, Checkpoint(call.ast, call.pass_name))
    IN  Newest(all, Min(Len(all), max_checkpoints))

\* C18: checkpoint_count never exceeds max_checkpoints, and a
\* create_checkpoint that would exceed the limit discards the oldest checkpoint
\* and leaves the remaining ones, the new one included, in creation order.
C18_LimitKeepsNewCheckpoint ==
    /\ obj = "RollbackManager" => Len(checkpoints) <= max_checkpoints
    /\ call.name = "create_checkpoint"
            => /\ checkpoints = FifoStack
               /\ Len(checkpoints) > 0
               /\ checkpoints[Len(checkpoints)] = Checkpoint(call.ast, call.pass_name)

\* what create_checkpoint guarantees for every max_checkpoints, 0 included: the
\* limit holds and eviction is oldest-first; the new checkpoint is the newest one
\* on the stack when max_checkpoints >= 1 and is itself discarded when it is 0
LimitEvictsOldestFirst ==
    /\ obj = "RollbackManager" => Len(checkpoints) <= max_checkpoints
    /\ call.name = "create_checkpoint"
            => /\ checkpoints = FifoStack
               /\ max_checkpoints >= 1
                      => checkpoints[Len(checkpoints)] = Checkpoint(call.ast, call.pass_name)
               /\ max_checkpoints = 0 => checkpoints = <<>>

\* C19: rollback_to_last_checkpoint returns the snapshot of the newest checkpoint
\* on the stack and removes that checkpoint and no other; on an empty stack it
\* returns RollbackRequired and the stack stays empty.
C19_RollbackToLastPopsNewest ==
    call.name = "rollback_to_last_checkpoint" =>
        IF call.before = <<>>
            THEN /\ call.returned = Err("RollbackRequired")
                 /\ checkpoints = <<>>
            ELSE /\ call.returned = Ok(call.before[Len(call.before)].original_ast)
                 /\ Len(checkpoints) = Len(call.before) - 1
                 /\ \A i \in 1 .. Len(checkpoints) : checkpoints[i] = call.before[i]

\* a rollback from a stack of two checkpoints holding different snapshots
C19_Witness ==
    /\ call.name = "rollback_to_last_checkpoint"
    /\ Len(call.before) = 2
    /\ call.before[1].original_ast # call.before[2].original_ast
    /\ Len(checkpoints) = 1

\* positions of the checkpoints of pass p on the stack a call found
PositionsOf(p) == {i \in 1 .. Len(call.before) : call.before[i].pass_name = p}

C29_CheckpointsDoNotOutliveTheCall ==
    /\ call.name = "safe_transform" => checkpoints = call.before
    /\ (obj = "Transformer" /\ pc = 0) => checkpoints = <<>>

(***************************************************************************)
(* Properties of Part II                                                   *)
(***************************************************************************)
UnsafeScopes == DOMAIN semantic_flags.unsafe_scopes

\* the proper ancestors of a scope, up to the root
RECURSIVE Ancestors(_)
Ancestors(s) ==
    IF scope_tree[s + 1].parent_id = NoScope THEN {}
    ELSE {scope_tree[s + 1].parent_id} \cup Ancestors(scope_tree[s + 1].parent_id)

\* scopes in which analyze_scopes met the bareword eval
EvalSites == {reference_log[i].scope_id : i \in {j \in 1 .. Len(reference_log) :
                                                    reference_log[j].name = "eval"}}

C6_EvalFlagsItsEnclosingScope ==
    apc = "done" =>
        /\ \A s \in EvalSites : s \in UnsafeScopes /\ semantic_flags.unsafe_scopes[s] = "EvalUsage"
        /\ \A s \in UnsafeScopes :
               semantic_flags.unsafe_scopes[s] = "EvalUsage" =>
                   \E e \in EvalSites : s = e \/ s \in Ancestors(e)

\* C7: at the end of analysis a symbol that is exported, or whose declaring
\* scope is flagged unsafe, is not renamable.
C7_ExportedOrUnsafeIsNotRenamable ==
    apc = "done" =>
        \A i \in 1 .. Len(symbol_table) :
            (symbol_table[i].is_exported \/ symbol_table[i].scope_id \in UnsafeScopes)
                => ~symbol_table[i].is_renamable

C7_Witness ==
    /\ apc = "done"
    /\ \E i \in 1 .. Len(symbol_table) :
           /\ ~symbol_table[i].is_exported
           /\ symbol_table[i].scope_id \in UnsafeScopes
           /\ ~symbol_table[i].is_renamable
    /\ \E i \in 1 .. Len(symbol_table) :
           /\ symbol_table[i].is_exported
           /\ ~symbol_table[i].is_renamable

\* a function or arrow scope lies on the way from scope `from` up to its ancestor `to`
RECURSIVE CrossesFunction(_, _)
CrossesFunction(from, to) ==
    IF from = to \/ from = NoScope THEN FALSE
    ELSE scope_tree[from + 1].scope_type = "Function"
         \/ CrossesFunction(scope_tree[from + 1].parent_id, to)

\* C10: at the end of analysis is_captured holds exactly for the symbols with a
\* reference made from another scope that a function or arrow scope separates
\* from the declaring scope.
C10_CapturedIffReferencedAcrossFunction ==
    apc = "done" =>
        \A i \in 1 .. Len(symbol_table) :
            symbol_table[i].is_captured <=>
                \E k \in 1 .. Len(symbol_table[i].references) :
                    /\ symbol_table[i].references[k].scope_id # symbol_table[i].scope_id
                    /\ CrossesFunction(symbol_table[i].references[k].scope_id,
                                       symbol_table[i].scope_id)

\* symbols declared by var or by a function declaration
IsHoisted(sym) ==
    sym.symbol_type = SymbolTypeFunction \/ sym.symbol_type = SymbolTypeVariable("var")

\* C11: every var binding and every function declaration is declared in the
\* scope of its containing function (or the root scope) and nowhere else, so
\* none of them is bound in a block scope.
C11_HoistedOnlyIntoFunctionScope ==
    \A i \in 1 .. Len(symbol_table) :
        IsHoisted(symbol_table[i])
            => scope_tree[symbol_table[i].scope_id + 1].scope_type \in {"Global", "Function"}

\* scope s binds the name n in the finished symbol table
Binds(s, n) ==
    \E j \in 1 .. Len(symbol_table) :
        symbol_table[j].scope_id = s /\ symbol_table[j].name = n

\* the nearest scope on the chain r, parent(r), .., root that binds n
RECURSIVE NearestBindingScope(_, _)
NearestBindingScope(n, r) ==
    IF Binds(r, n) THEN r
    ELSE IF scope_tree[r + 1].parent_id = NoScope THEN NoScope
    ELSE NearestBindingScope(n, scope_tree[r + 1].parent_id)

\* C12: at the end of the analysis every reference recorded on a symbol was made
\* from a scope whose nearest binding of the symbol's name, searching from that
\* scope up to the root, is that symbol.
C12_ReferenceAttachedToNearestBinding ==
    apc = "done" =>
        \A i \in 1 .. Len(symbol_table) :
            \A k \in 1 .. Len(symbol_table[i].references) :
                NearestBindingScope(symbol_table[i].name,
                                    symbol_table[i].references[k].scope_id)
                    = symbol_table[i].scope_id

\* names declared by the export declarations of the program (all in the root scope)
ExportedNames ==
    {program[i].declaration.id :
        i \in {j \in 1 .. Len(program) : program[j].type = "ExportNamedDeclaration"}}

\* C13: after the analysis every binding declared by an export declaration is a
\* symbol with is_exported = true and is_renamable = false, and no symbol other
\* than those is flagged is_exported.
C13_ExportedExactlyTheExportDeclarations ==
    apc = "done" =>
        /\ \A n \in ExportedNames :
               \E i \in 1 .. Len(symbol_table) :
                   /\ symbol_table[i].name = n
                   /\ symbol_table[i].scope_id = 0
                   /\ symbol_table[i].is_exported
                   /\ ~symbol_table[i].is_renamable
        /\ \A i \in 1 .. Len(symbol_table) :
               symbol_table[i].is_exported
                   => (symbol_table[i].scope_id = 0 /\ symbol_table[i].name \in ExportedNames)

\* the statement list of the function or block a statement opens, <<>> when it opens none
BodyOf(stmt) ==
    CASE stmt.type \in {"FunctionDeclaration", "BlockStatement"} -> stmt.body
      [] stmt.type = "ExpressionStatement" /\ stmt.expression.type = "ArrowFunctionExpression"
            -> stmt.expression.body
      [] OTHER -> <<>>

\* some statement list of the program declares one name twice with let or const
RECURSIVE RedeclaresLexical(_)
RedeclaresLexical(body) ==
    \/ \E i, j \in 1 .. Len(body) :
           /\ i < j
           /\ body[i].type = "VariableDeclaration" /\ body[i].kind \in {"let", "const"}
           /\ body[j].type = "VariableDeclaration" /\ body[j].kind \in {"let", "const"}
           /\ body[i].id = body[j].id
    \/ \E i \in 1 .. Len(body) : RedeclaresLexical(BodyOf(body[i]))

\* C14: a program that declares the same name twice with let or const in one
\* block is rejected by analyze_scopes: the analysis never gets past it to a
\* result.
C14_LexicalRedeclarationRejected ==
    RedeclaresLexical(program) => apc \notin {"scoped", "propagating", "done"}

\* the identifier occurrences whose name no scope on their chain binds
UnresolvedOccurrences ==
    {i \in 1 .. Len(reference_log) :
        NearestBindingScope(reference_log[i].name, reference_log[i].scope_id) = NoScope}

\* C15: the analysis always ends with a result, and when some identifier
\* occurrence resolves to no symbol the list of global references of the
\* semantic flags holds a record of it (so the list is not empty).
C15_UnresolvedNamesRecordedAsGlobals ==
    apc = "done" =>
        (UnresolvedOccurrences # {} => semantic_flags.global_references # <<>>)

\* A walk over the program that numbers the scopes in the order analyze_scopes
\* creates them and collects, in dyn, the scope of every non-arrow function that
\* is the nearest enclosing function of a `this`; top records a `this` outside
\* every function.
RECURSIVE ThisStatement(_, _), ThisStatements(_, _)
ThisFunction(w, body, arrow) ==
    LET inner == ThisStatements([w EXCEPT !.next = w.next + 1, !.fn = w.next,
                                          !.arrow = arrow], body)
    IN  [inner EXCEPT !.fn = w.fn, !.arrow = w.arrow]
ThisStatement(w, stmt) ==
    CASE stmt.type = "FunctionDeclaration" -> ThisFunction(w, stmt.body, FALSE)
      [] stmt.type = "BlockStatement" ->
            ThisStatements(IF NeedsBlockScope(stmt.body) THEN [w EXCEPT !.next = @ + 1] ELSE w,
                           stmt.body)
      [] stmt.type = "ExpressionStatement" /\ stmt.expression.type = "ArrowFunctionExpression"
            -> ThisFunction(w, stmt.expression.body, TRUE)
      [] stmt.type = "ExpressionStatement" /\ stmt.expression.type = "ThisExpression"
            -> IF w.fn = NoScope THEN [w EXCEPT !.top = TRUE]
               ELSE IF w.arrow THEN w
               ELSE [w EXCEPT !.dyn = @ \cup {w.fn}]
      [] OTHER -> w
ThisStatements(w, body) ==
    IF body = <<>> THEN w ELSE ThisStatements(ThisStatement(w, Head(body)), Tail(body))

ThisWalk ==
    ThisStatements([next |-> 1, fn |-> NoScope, arrow |-> FALSE, dyn |-> {}, top |-> FALSE],
                   program)

\* the scopes flagged with the reason DynamicThis
DynamicThisScopes ==
    {s \in DOMAIN semantic_flags.unsafe_scopes : semantic_flags.unsafe_scopes[s] = "DynamicThis"}

ScopeIds == 0 .. Len(scope_tree) - 1

\* following parent links from s for at most n steps arrives at scope 0
RECURSIVE ReachesRoot(_, _)
ReachesRoot(s, n) ==
    \/ s = 0
    \/ /\ n > 0
       /\ scope_tree[s + 1].parent_id \in ScopeIds
       /\ ReachesRoot(scope_tree[s + 1].parent_id, n - 1)

\* C17: the scope tree is a tree rooted at scope 0: scope 0 has no parent, every
\* other scope has one parent that exists and lists it among its children
\* exactly once, no scope lists a child that is not its own, and the parent links
\* of every scope lead to scope 0.
C17_ScopeTreeIsRootedTree ==
    /\ scope_tree[1].parent_id = NoScope
    /\ \A s \in ScopeIds \ {0} :
           LET p == scope_tree[s + 1].parent_id
           IN  /\ p \in ScopeIds \ {s}
               /\ Cardinality({k \in 1 .. Len(scope_tree[p + 1].children) :
                                   scope_tree[p + 1].children[k] = s}) = 1
               /\ ReachesRoot(s, Len(scope_tree))
    /\ \A p \in ScopeIds :
           \A k \in 1 .. Len(scope_tree[p + 1].children) :
               LET ch == scope_tree[p + 1].children[k]
               IN  ch \in ScopeIds /\ scope_tree[ch + 1].parent_id = p

\* a finished analysis whose tree has a scope with two children and a scope two
\* levels below the root
C17_Witness ==
    /\ apc = "done"
    /\ \E p \in ScopeIds : Len(scope_tree[p + 1].children) >= 2
    /\ \E s \in ScopeIds :
           /\ scope_tree[s + 1].parent_id \in ScopeIds \ {0}
           /\ scope_tree[s + 1].scope_type = "Block"

(***************************************************************************)
(* Properties of Part III                                                  *)
(***************************************************************************)
\* JavaScript's binary operators as the language defines them: the binding
\* strength of each operator token and whether it groups to the right
JsBinaryPrecedence(tok) ==
    CASE tok = "**" -> 13
      [] tok \in {"*", "/", "%"} -> 12
      [] tok \in {"+", "-"} -> 11
      [] tok \in {"==", "!=", "===", "!=="} -> 8
      [] tok = "&&" -> 4
      [] tok = "||" -> 3
      [] OTHER -> 0
JsRightAssociative(tok) == tok = "**"
JsOperatorOf(tok) ==
    CASE tok = "**" -> "Exponentiation"
      [] tok = "*" -> "Multiply"
      [] tok = "/" -> "Divide"
      [] tok = "%" -> "Remainder"
      [] tok = "+" -> "Add"
      [] tok = "-" -> "Subtract"
      [] tok = "==" -> "Equal"
      [] tok = "!=" -> "NotEqual"
      [] tok = "===" -> "StrictEqual"
      [] tok = "!==" -> "StrictNotEqual"
      [] tok = "&&" -> "LogicalAnd"
      [] tok = "||" -> "LogicalOr"
      [] OTHER -> "Unknown"

\* the printed text without its blanks, line ends and statement terminators
RECURSIVE ExpressionTokens(_)
ExpressionTokens(ts) ==
    IF ts = <<>> THEN <<>>
    ELSE IF Head(ts) \in {" ", "\n", ";"} THEN ExpressionTokens(Tail(ts))
    ELSE <<Head(ts)>> \o ExpressionTokens(Tail(ts))

\* a JavaScript parser for binary expressions over identifiers and parentheses:
\* operators of at least min_precedence are taken, a left-associative operator's
\* right operand binds tighter than it, a right-associative one's as tight
RECURSIVE JsParseBinary(_, _)
RECURSIVE JsParseOperators(_, _, _)
JsParsePrimary(ts) ==
    IF Head(ts) = "("
        THEN LET inner == JsParseBinary(Tail(ts), 1)
             IN  [tree |-> inner.tree, rest |-> Tail(inner.rest)]
        ELSE [tree |-> Identifier(Head(ts)), rest |-> Tail(ts)]
JsParseOperators(lhs, ts, min_precedence) ==
    IF ts = <<>> \/ JsBinaryPrecedence(Head(ts)) < min_precedence
        THEN [tree |-> lhs, rest |-> ts]
        ELSE LET tok == Head(ts)
                 rhs == JsParseBinary(Tail(ts),
                            IF JsRightAssociative(tok) THEN JsBinaryPrecedence(tok)
                                                       ELSE JsBinaryPrecedence(tok) + 1)
             IN  JsParseOperators(BinaryExpression(JsOperatorOf(tok), lhs, rhs.tree),
                                  rhs.rest, min_precedence)
JsParseBinary(ts, min_precedence) ==
    LET primary == JsParsePrimary(ts)
    IN  JsParseOperators(primary.tree, primary.rest, min_precedence)

JsParseExpression(ts) == JsParseBinary(ExpressionTokens(ts), 1).tree

\* C8: for every expression tree the printer accepts, parsing the printed text
\* with JavaScript's precedence and associativity gives back a tree with the
\* same operators and the same grouping.  Checked on the programs that are one
\* expression statement over identifiers and binary operators.
C8_PrintedExpressionReparsesToSameTree ==
    (/\ ppc = PrintDone
     /\ Len(pprogram) = 1
     /\ pprogram[1].type = "ExpressionStatement"
     /\ pprogram[1].expression.type \in {"Identifier", "BinaryExpression"})
        => JsParseExpression(output) = pprogram[1].expression

\* the first characters after which a line end does not end the statement before
HazardStarts == {"(", "[", "/", "+", "-", Backtick}

\* C9: for every program, semicolon strategy and format, the printed text keeps
\* the statement boundaries of the tree: whenever a statement after the first is
\* printed, the text before it ends in a semicolon or in a line end that
\* JavaScript takes as the end of a statement, and a statement that begins with
\* one of ( [ / + - or a grave accent is preceded by a semicolon when the
\* statement before it was printed without a terminator.
C9_StatementBoundariesPreserved ==
    [][(ppc \in 2 .. Len(pprogram) /\ ppc' = ppc + 1) =>
        LET text == PrintStatement(pprogram[ppc], pconfig)
            gap == SubSeq(output', Len(output) + 1, Len(output') - Len(text))
            terminated == output[Len(output)] = ";"
            first == text[1]
            semicolon_in_gap == \E i \in DOMAIN gap : gap[i] = ";"
            newline_in_gap == \E i \in DOMAIN gap : gap[i] = "\n"
        IN  /\ terminated \/ semicolon_in_gap \/ (newline_in_gap /\ first \notin HazardStarts)
            /\ (first \in HazardStarts /\ ~terminated) => semicolon_in_gap
      ]_vars

\* identifiers, keywords and numbers: two of them side by side need a space between
WordTokens == {"function", "return", "let", "var", "const", "this", "a", "b", "f", "x", "2"}
WhitespaceTokens == {" ", "  ", "\n"}

\* C27: in compact format the printed text holds a whitespace character only
\* between two tokens that would fuse without it (two words); none after a
\* comma or around an operator
C27_CompactWhitespaceOnlyBetweenWords ==
    (ppc = PrintDone /\ pconfig.format = "Compact") =>
        \A i \in 1 .. Len(output) :
            output[i] \in WhitespaceTokens =>
                /\ i > 1 /\ i < Len(output)
                /\ output[i - 1] \in WordTokens
                /\ output[i + 1] \in WordTokens

\* the texts written in place of a statement, an expression or a pattern that
\* the printer does not print
PlaceholderComments == {"/* STMT */", "/* EXPR */", "/* PATTERN */"}

\* C30: no statement of a successfully parsed program is left out of the AST by
\* the conversion, and none is replaced by a placeholder comment in the output
C30_NoCodeLostOrReplaced ==
    [][ /\ ppc = PrintIdle => pprogram' = pprogram
        /\ ppc' = PrintDone => \A i \in 1 .. Len(output') : output'[i] \notin PlaceholderComments
      ]_vars

(***************************************************************************)
(* Properties of Part IV                                                   *)
(***************************************************************************)
IsPrefix(s, t) == Len(s) <= Len(t) /\ \A i \in 1..Len(s) : s[i] = t[i]

\* the stages run in the order parse, analyze, transform, generate, write, and
\* after a stage has reported an error no later stage runs
StagesRunInOrder ==
    /\ IsPrefix(dran, Stages)
    /\ dresult \notin {"none", "Ok"} => dpc = "returned"

C25_OkOutputWithinCap ==
    (mpc = PrintDone /\ mresult = "Ok") => output_len <= MAX_OUTPUT_SIZE

\* the check after the loop does refuse what the loop wrote beyond the cap
OverCapRefusedAfterLoop ==
    (mpc = PrintDone /\ mresult = "Ok") => output_len <= MAX_OUTPUT_SIZE + NewlineSize(mconfig)

\* C28: whenever no print_program call is running, chars_written is the length
\* of the output of the most recent call, with or without reset between calls
C28_CharsWrittenIsOutputLength ==
    mpc = PrintDone => chars_written = output_len

(***************************************************************************)
(* Properties of Part VI                                                   *)
(***************************************************************************)
\* standard base-64 VLQ decoding
Base64Value(c) == CHOOSE d \in 0 .. 63 : EncodeBase64Digit(d) = c

\* every digit but the last carries the continuation bit
WellFormedVlq(text) ==
    /\ Len(text) >= 1
    /\ \A i \in 1 .. Len(text) : (Base64Value(text[i]) >= 32) <=> (i < Len(text))

RECURSIVE VlqBits(_, _)
VlqBits(text, i) ==
    IF i > Len(text) THEN 0
    ELSE (Base64Value(text[i]) % 32) * (32 ^ (i - 1)) + VlqBits(text, i + 1)

\* the sign is the least-significant bit, the magnitude the rest
DecodeVlq(text) ==
    LET bits == VlqBits(text, 1)
    IN  IF bits % 2 = 1 THEN 0 - (bits \div 2) ELSE bits \div 2

\* C23: encode_vlq turns every i32 into a finite string of base-64 digits, with
\* the continuation bit on every digit but the last, that decodes to the value
C23_EncodeVlqFiniteAndDecodable ==
    slast.op = "encode_vlq" =>
        /\ ~slast.returned.panicked
        /\ slast.returned.finished
        /\ WellFormedVlq(slast.returned.text)
        /\ DecodeVlq(slast.returned.text) = slast.arg

\* below 2^30 in magnitude the encoding is finite and decodes to the value
EncodeVlqDecodableBelowTwoTo30 ==
    (slast.op = "encode_vlq" /\ slast.arg > -(2 ^ 30) /\ slast.arg < 2 ^ 30) =>
        /\ ~slast.returned.panicked
        /\ slast.returned.finished
        /\ WellFormedVlq(slast.returned.text)
        /\ DecodeVlq(slast.returned.text) = slast.arg

NoDuplicates(list) == \A i, j \in 1 .. Len(list) : list[i] = list[j] => i = j

\* C24: add_source and add_name keep sources and names free of duplicates, return
\* the zero-based position of the argument in first-insertion order, and never
\* move a string that is already in the list, so its index never changes
C24_TablesDeduplicateWithStableIndices ==
    [][ /\ IsPrefix(sources, sources') /\ IsPrefix(names, names')
        /\ NoDuplicates(sources') /\ NoDuplicates(names')
        /\ slast'.op = "add_source" =>
               /\ slast'.returned < Len(sources')
               /\ sources'[slast'.returned + 1] = slast'.arg
        /\ slast'.op = "add_name" =>
               /\ slast'.returned < Len(names')
               /\ names'[slast'.returned + 1] = slast'.arg
      ]_vars

\* the first source was added again after a second one, and its index 0 came back
C24_Witness ==
    /\ slast.op = "add_source" /\ Len(sources) = 2 /\ slast.returned = 0
    /\ Len(names) = 2

\* ---- decoding a mappings string ----
RECURSIVE SplitOn(_, _)
SplitOn(text, sep) ==
    IF \A i \in 1 .. Len(text) : text[i] # sep THEN <<text>>
    ELSE LET first == CHOOSE i \in 1 .. Len(text) :
                          text[i] = sep /\ \A j \in 1 .. (i - 1) : text[j] # sep
         IN  <<SubSeq(text, 1, first - 1)>> \o SplitOn(SubSeq(text, first + 1, Len(text)), sep)

\* the semicolon-separated groups of a mappings string, each the list of its
\* comma-separated segments
GroupsOf(text) ==
    LET groups == SplitOn(text, ";")
    IN  [g \in 1 .. Len(groups) |-> IF groups[g] = <<>> THEN <<>> ELSE SplitOn(groups[g], ",")]

\* the numbers of a segment: each ends at the first digit without continuation bit
RECURSIVE FieldsOf(_)
FieldsOf(text) ==
    IF text = <<>> THEN <<>>
    ELSE LET last == CHOOSE i \in 1 .. Len(text) :
                         Base64Value(text[i]) < 32 /\ \A j \in 1 .. (i - 1) : Base64Value(text[j]) >= 32
         IN  <<DecodeVlq(SubSeq(text, 1, last))>> \o FieldsOf(SubSeq(text, last + 1, Len(text)))

\* the absolute values of the segments of one group, by the rules of the format:
\* every field is added to the value of the same field in the previous segment
RECURSIVE DecodeSegments(_, _)
DecodeSegments(segments, prev) ==
    IF segments = <<>> THEN [values |-> <<>>, prev |-> prev]
    ELSE LET d == FieldsOf(Head(segments))
             n == Len(d)
             abs == [f \in 1 .. n |-> prev[f] + d[f]]
             rest == DecodeSegments(Tail(segments), [f \in 1 .. 5 |-> IF f <= n THEN abs[f] ELSE prev[f]])
         IN  [values |-> <<abs>> \o rest.values, prev |-> rest.prev]

\* the groups of a mappings string in absolute values: the generated column
\* starts from 0 in every group, the other fields carry over
RECURSIVE DecodeGroups(_, _)
DecodeGroups(groups, prev) ==
    IF groups = <<>> THEN <<>>
    ELSE LET one == DecodeSegments(Head(groups), [prev EXCEPT ![1] = 0])
         IN  <<one.values>> \o DecodeGroups(Tail(groups), one.prev)

DecodeMappings(text) == DecodeGroups(GroupsOf(text), <<0, 0, 0, 0, 0>>)

\* the fields encode_mappings writes for a segment, in absolute values
FieldsAdded(segment) ==
    <<segment.generated_column>>
        \o (IF segment.source_index # <<>> /\ segment.original_line # <<>>
               /\ segment.original_column # <<>>
             THEN segment.source_index \o segment.original_line \o segment.original_column
                    \o segment.name_index
             ELSE <<>>)

\* the generated lines that have segments, in increasing order
RECURSIVE LinesInOrder(_)
LinesInOrder(lines) ==
    IF lines = {} THEN <<>>
    ELSE LET least == CHOOSE l \in lines : \A k \in lines : l <= k
         IN  <<least>> \o LinesInOrder(lines \ {least})

\* C22: decoding the mappings string by the delta rules (every field relative to
\* the previous segment, the generated column starting from 0 on each line, the
\* other fields carrying over across lines) gives back, line after line and in
\* column order, the absolute values of the fields that were added
C22_DeltasDecodeToAddedValues ==
    spc = "built" =>
        LET decoded == SelectSeq(DecodeMappings(encoded), LAMBDA g : g # <<>>)
            lines == LinesInOrder(DOMAIN mappings)
        IN  /\ Len(decoded) = Len(lines)
            /\ \A k \in 1 .. Len(lines) :
                   LET sorted == SortByGeneratedColumn(mappings[lines[k]])
                   IN  decoded[k] = [i \in 1 .. Len(sorted) |-> FieldsAdded(sorted[i])]

\* two lines were built, the later one with a smaller column and smaller source
\* fields than the earlier one, and with a name
C22_Witness ==
    /\ spc = "built"
    /\ DOMAIN mappings = {0, 2}
    /\ mappings[0][1].generated_column = 4 /\ mappings[0][1].source_index = <<1>>
    /\ mappings[2][1].generated_column = 0 /\ mappings[2][1].name_index = <<1>>

\* C21: the segments of generated line n stand in the (n+1)-th semicolon-separated
\* group, a line without segments included, and the segments of a group are in
\* increasing order of generated column
C21_GroupPerGeneratedLine ==
    (spc = "built" /\ DOMAIN mappings # {}) =>
        LET decoded == DecodeMappings(encoded)
            last == CHOOSE l \in DOMAIN mappings : \A k \in DOMAIN mappings : k <= l
        IN  /\ Len(decoded) = last + 1
            /\ \A n \in 0 .. last :
                   /\ Len(decoded[n + 1]) = IF n \in DOMAIN mappings THEN Len(mappings[n]) ELSE 0
                   /\ \A i \in 1 .. (Len(decoded[n + 1]) - 1) :
                          decoded[n + 1][i][1] <= decoded[n + 1][i + 1][1]

\* the groups that are written follow the order of the generated lines, and the
\* segments of a group are in increasing order of generated column
GroupsInLineAndColumnOrder ==
    spc = "built" =>
        LET decoded == SelectSeq(DecodeMappings(encoded), LAMBDA g : g # <<>>)
        IN  \A k \in 1 .. Len(decoded) : \A i \in 1 .. (Len(decoded[k]) - 1) :
                decoded[k][i][1] <= decoded[k][i + 1][1]

====
